---- MODULE Spec2Model ----
(***************************************************************************)
(* A model of abs-kosync-bridge: the three-way reconciliation of reading   *)
(* progress between Audiobookshelf (ABS, seconds), KoSync (fraction) and   *)
(* the Storyteller database (fraction), the mapping registry, and the      *)
(* Storyteller database writer.                                            *)
(*                                                                         *)
(* Units.  ABS positions are whole seconds.  KoSync and Storyteller        *)
(* positions are fractions counted in thousandths (0.01 is 10, 0.05 is     *)
(* 50).  Book lengths are counted in thousands of characters, so that the  *)
(* character offset of the fraction p/1000 in a book of length 1000*L is   *)
(* p*L.  Storyteller timestamps are milliseconds.                          *)
(***************************************************************************)
EXTENDS Integers, Sequences, FiniteSets, TLC

VARIABLES
    \* ---- reconciliation (main.py, SyncManager.sync_cycle) ----
    status,      \* the mapping's status in mapping_db.json
    book_len,    \* length of the mapping's ebook, in thousands of characters
    src,         \* what the three services hold: [ab, es, ra]
    state,       \* self.state[abs_id] as persisted in last_state.json
    cyc,         \* what the last sync_cycle did with the mapping (history)
    \* ---- mapping registry (main.py, web_server.py) ----
    db_file,     \* mapping_db.json: the list under "mappings"
    web_db,      \* manager.db['mappings'] of the web process
    queue,       \* session['queue'] of the batch matcher
    \* ---- Storyteller database (storyteller_db.py) ----
    rows,        \* the position rows of the book: sequence of [pct, ts]
    sess,        \* session.updated_at of the user's latest session
    now_ms,      \* the local clock, milliseconds
    call,        \* the last update_progress call (history)
    \* ---- the daemon (main.py, SyncManager.run_daemon and its two tasks) ----
    up,          \* the daemon process is running
    running,     \* the scheduled tasks in progress: set of [task, i, claimed]
    daemon_db,   \* self.db['mappings'] of the daemon
    transcripts, \* the abs_ids whose transcript file is on disk
    primed,      \* the abs_ids whose ebook went through extract_text_and_map
    hist,        \* what the daemon did last (history)
    \* ---- the two JSON files (main.py, _load_db .. _save_state) ----
    files,       \* mapping_db.json and last_state.json as they are on disk
    saving,      \* the _save_db / _save_state call in progress, if any
    loaded,      \* the last _load_db / _load_state call (history)
    \* ---- the states table beside the registry (main.py, remove_mapping) ----
    self_state,  \* manager.state of the web process: abs_id -> stamp of entry
    state_file,  \* last_state.json: abs_id -> stamp of the entry
    ret,         \* the last remove_mapping call and what it returned (history)
    \* ---- the readaloud monitor (web_server.py) ----
    folder,      \* one folder under DEST_BASE that holds a readaloud file
    mon          \* the last pass of the monitor over the folder (history)

vars == <<status, book_len, src, state, cyc,
          db_file, web_db, queue, rows, sess, now_ms, call,
          up, running, daemon_db, transcripts, primed, hist,
          files, saving, loaded, self_state, state_file, ret, folder, mon>>

syncVars  == <<status, book_len, src, state, cyc>>
storeVars == <<db_file, web_db, queue>>
raVars    == <<rows, sess, now_ms, call>>
daemonVars == <<up, running, daemon_db, transcripts, primed, hist>>
fileVars  == <<files, saving, loaded>>
regVars   == <<self_state, state_file, ret>>
monVars   == <<folder, mon>>

(***************************************************************************)
(* Values the services can report.                                         *)
(***************************************************************************)
\* ABS seconds: 2000->2040 is below the 60 s threshold, 2040->2140 is above
\* it, 2140->2040 is a backwards move of 4.7%, 2140->2000 a regression (6.5%).
ABVals  == {2000, 2040, 2140}
\* Fractions in thousandths: 45->55 is not above 1%, 0->45 is, 45->0 is a
\* backwards move of 4.5%, 55->0 a regression (5.5%).
PctVals == {0, 45, 55}
\* Ebook lengths in thousands of characters: 100 000 and 1 000 000.
BookLens == {100, 1000}

Abs(x) == IF x < 0 THEN 0 - x ELSE x

(***************************************************************************)
(* Thresholds (SyncManager.__init__ and the regression guard).             *)
(***************************************************************************)
delta_abs_thresh == 60
delta_kosync_thresh == 10
delta_kosync_char_thresh == 2000
\* REGRESSION_THRESHOLD = 0.05, in thousandths
REGRESSION_THRESHOLD == 50
\* the same threshold as a divisor: x / prev > 0.05  iff  x * 20 > prev
REGRESSION_DIVISOR == 20

\* prev_state = defaults | existing_data
defaults == [present |-> FALSE, abs_ts |-> 0, kosync_pct |-> 0,
             storyteller_pct |-> 0, kosync_index |-> 0]

\* EbookParser.get_character_delta: |floor(p2*L) - floor(p1*L)|
get_character_delta(len, p1, p2) == Abs(p2 * len - p1 * len)

\* the character offset find_text_location reports for a match at pct
matched_index_of(len, pct) == pct * len

(***************************************************************************)
(* sync_cycle, lines 288-366: fetch, deltas, small changes.                *)
(***************************************************************************)
\* What the fetch block hands to the rest of the cycle.  StorytellerDB.
\* get_progress catches every error and returns (None, 0), like it does for
\* a book or a position that is not there; sync_cycle turns None into 0.0.
Observed(s, stRead) ==
    [ab |-> s.ab, es |-> s.es, ra |-> IF stRead = "ok" THEN s.ra ELSE 0]

prev_state_of(st) == IF st.present THEN st ELSE defaults

abs_delta(prev, o) == Abs(o.ab - prev.abs_ts)
kosync_delta(prev, o) == Abs(o.es - prev.kosync_pct)
storyteller_delta(prev, o) == Abs(o.ra - prev.storyteller_pct)

abs_changed(prev, o) == abs_delta(prev, o) > delta_abs_thresh

\* the small move that never escalates: the character delta is not looked at
kosync_never_escalated(len, prev, o) == FALSE

\* the small KoSync move whose character delta is above the threshold
kosync_escalated(len, prev, o) ==
    /\ kosync_delta(prev, o) > 0
    /\ ~(kosync_delta(prev, o) > delta_kosync_thresh)
    /\ get_character_delta(len, prev.kosync_pct, o.es) > delta_kosync_char_thresh

kosync_changed(len, prev, o) ==
    \/ kosync_delta(prev, o) > delta_kosync_thresh
    \/ kosync_escalated(len, prev, o)

storyteller_changed(prev, o) == storyteller_delta(prev, o) > delta_kosync_thresh

any_changed(len, prev, o) ==
    abs_changed(prev, o) \/ kosync_changed(len, prev, o) \/ storyteller_changed(prev, o)

\* lines 327-362: each small move is taken into prev_state and saved
small_abs(prev, o) ==
    IF abs_delta(prev, o) > 0 /\ ~abs_changed(prev, o)
    THEN [prev EXCEPT !.abs_ts = o.ab, !.kosync_index = 0, !.present = TRUE]
    ELSE prev

\* the KoSync block left out: the small move is not taken in
small_kosync_dropped(len, prev, cur, o) == cur

\* the KoSync block without its character test: every move that did not
\* cross the fraction threshold is taken in
small_kosync_untested(len, prev, cur, o) ==
    IF kosync_delta(prev, o) > 0 /\ ~(kosync_delta(prev, o) > delta_kosync_thresh)
    THEN [cur EXCEPT !.kosync_pct = o.es, !.kosync_index = 0, !.present = TRUE]
    ELSE cur

small_kosync(len, prev, cur, o) ==
    IF kosync_delta(prev, o) > 0 /\ ~kosync_changed(len, prev, o)
    THEN [cur EXCEPT !.kosync_pct = o.es, !.kosync_index = 0, !.present = TRUE]
    ELSE cur

\* the Storyteller block left out: the small move is not taken in
small_storyteller_dropped(prev, cur, o) == cur

small_storyteller(prev, cur, o) ==
    IF storyteller_delta(prev, o) > 0 /\ ~storyteller_changed(prev, o)
    THEN [cur EXCEPT !.storyteller_pct = o.ra, !.present = TRUE]
    ELSE cur

\* prev_state when line 364 is reached
small_changes(len, prev, o) ==
    small_storyteller(prev, small_kosync(len, prev, small_abs(prev, o), o), o)

\* self.state[abs_id] when line 364 is reached: prev_state if one of the
\* three blocks saved it, and what it was otherwise
saved_after_small(len, st, o) ==
    LET cur == small_changes(len, prev_state_of(st), o)
    IN  IF cur.present THEN cur ELSE st

(***************************************************************************)
(* sync_cycle, lines 374-434: regression guard and the choice of source.   *)
(***************************************************************************)
abs_regression(prev, o) ==
    /\ abs_changed(prev, o)
    /\ o.ab < prev.abs_ts
    /\ prev.abs_ts > 0
    /\ (prev.abs_ts - o.ab) * REGRESSION_DIVISOR > prev.abs_ts

kosync_regression(len, prev, o) ==
    /\ kosync_changed(len, prev, o)
    /\ o.es < prev.kosync_pct
    /\ prev.kosync_pct - o.es > REGRESSION_THRESHOLD

storyteller_regression(prev, o) ==
    /\ storyteller_changed(prev, o)
    /\ o.ra < prev.storyteller_pct
    /\ prev.storyteller_pct - o.ra > REGRESSION_THRESHOLD

\* the guard without its Storyteller check
regression_detected_no_storyteller(len, prev, o) ==
    \/ abs_regression(prev, o)
    \/ kosync_regression(len, prev, o)

regression_detected(len, prev, o) ==
    \/ abs_regression(prev, o)
    \/ kosync_regression(len, prev, o)
    \/ storyteller_regression(prev, o)

\* lines 421-429
source_of(len, prev, o) ==
    IF abs_changed(prev, o) THEN "ABS"
    ELSE IF kosync_changed(len, prev, o) THEN "KOSYNC"
    ELSE IF storyteller_changed(prev, o) THEN "STORYTELLER"
    ELSE "ABS"

\* the stored triple left as the small-change blocks made it
match_state_kept(cur, o) == cur

\* lines 413-415 and 545-547: the stored triple becomes the one just read
match_state(cur, o) ==
    [cur EXCEPT !.abs_ts = o.ab, !.kosync_pct = o.es, !.storyteller_pct = o.ra,
                !.present = TRUE]

(***************************************************************************)
(* What the collaborators can answer.  The transcriber, the ebook parser   *)
(* and the two HTTP clients are called by sync_cycle; each answer they can *)
(* give is an input of the cycle.                                          *)
(***************************************************************************)
\* get_text_at_time, get_text_at_percentage, the fragment text: some text,
\* nothing, or an exception
Texts == {"text", "empty", "raise"}
\* find_text_location: (None, None, None), a match, or an exception
Locs == {[st |-> "none", pct |-> 0], [st |-> "raise", pct |-> 0]}
            \cup {[st |-> "found", pct |-> p] : p \in PctVals}
\* find_time_for_text: None or a time
Times == {[st |-> "none", t |-> 0]} \cup {[st |-> "found", t |-> v] : v \in ABVals}
\* abs_client / kosync_client get_progress and update_progress
Calls == {"ok", "raise"}
\* storyteller_db.get_progress: a position, or None (no book, no position
\* row, or an error caught inside get_progress)
StReads == {"ok", "none"}

Write(tgt, val, ok, held) == [tgt |-> tgt, val |-> val, ok |-> ok, held |-> held]

Sources == {"ABS", "KOSYNC", "STORYTELLER"}

\* the sources whose change flag is set when line 364 is reached
changed_set(len, prev, o) ==
    {x \in Sources :
        \/ x = "ABS" /\ abs_changed(prev, o)
        \/ x = "KOSYNC" /\ kosync_changed(len, prev, o)
        \/ x = "STORYTELLER" /\ storyteller_changed(prev, o)}

\* the sources whose small move one of the blocks of lines 327-362 took
\* into prev_state and saved
absorbed_set(len, prev, o) ==
    {x \in Sources :
        \/ x = "ABS" /\ abs_delta(prev, o) > 0 /\ ~abs_changed(prev, o)
        \/ x = "KOSYNC" /\ kosync_delta(prev, o) > 0 /\ ~kosync_changed(len, prev, o)
        \/ x = "STORYTELLER" /\ storyteller_delta(prev, o) > 0
                             /\ ~storyteller_changed(prev, o)}

NoTriple == [ab |-> 0, es |-> 0, ra |-> 0]

\* the movement the small-change blocks have taken into the stored state
\* over the passes in a row that set no change flag
drifted(d, prev, o) ==
    [ab |-> d.ab + (o.ab - prev.abs_ts),
     es |-> d.es + (o.es - prev.kosync_pct),
     ra |-> d.ra + (o.ra - prev.storyteller_pct)]

\* the query text of a pass: what the fragment attempt of lines 503-508 gave
\* and where target_text came from ("-" on the other branches)
NoQuery == [frag |-> "-", from |-> "-"]

NoCycle ==
    [kind |-> "none", readok |-> FALSE, source |-> "-", changed |-> {},
     writes |-> {}, absorbed |-> {}, last |-> NoTriple, drift |-> NoTriple,
     nothing |-> "-", after |-> "-", query |-> NoQuery]

\* The services after the writes of a cycle.
Written(s, writes) ==
    [ab |-> IF \E w \in writes : w.tgt = "ABS" /\ w.ok
            THEN (CHOOSE w \in writes : w.tgt = "ABS" /\ w.ok).val ELSE s.ab,
     es |-> IF \E w \in writes : w.tgt = "KOSYNC" /\ w.ok
            THEN (CHOOSE w \in writes : w.tgt = "KOSYNC" /\ w.ok).val ELSE s.es,
     ra |-> IF \E w \in writes : w.tgt = "STORYTELLER" /\ w.ok
            THEN (CHOOSE w \in writes : w.tgt = "STORYTELLER" /\ w.ok).val ELSE s.ra]

\* One pass ends: the persisted state, the services and the record of the
\* pass (its outcome, whether Storyteller was read, the change flags, the
\* chosen source, the update_progress calls made, the small moves taken
\* into the stored state, the triple read, and the movement taken in by the
\* passes in a row that set no change flag, the step of the chosen branch
\* that returned no result, on a pass that set no change flag the same of
\* the pass before, and the query text of the Storyteller branch where the
\* action spells it out).
Pass(kind, readok, changed, source, writes, st2, nothing, query) ==
    /\ state' = st2
    /\ src' = Written(src, writes)
    /\ LET o == Observed(src, IF readok THEN "ok" ELSE "none")
           prev == prev_state_of(state)
           compared == kind \notin {"inactive", "skip"}
       IN  cyc' = [kind |-> kind, readok |-> readok, source |-> source,
                   changed |-> changed, writes |-> writes,
                   absorbed |-> IF compared THEN absorbed_set(book_len, prev, o)
                                ELSE {},
                   last |-> IF compared THEN o ELSE NoTriple,
                   drift |-> IF kind = "nochange" THEN drifted(cyc.drift, prev, o)
                             ELSE NoTriple,
                   nothing |-> nothing,
                   after |-> IF kind = "nochange" THEN cyc.nothing ELSE "-",
                   query |-> query]
    /\ UNCHANGED <<status, book_len>>

(***************************************************************************)
(* sync_cycle over the mapping, one action per path through lines 278-554. *)
(***************************************************************************)
\* every mapping taken for an active one
is_active_unchecked(st) == TRUE

\* line 279, mapping.get('status', 'active') == 'active': the status of the
\* record, and 'active' for a record that has no status key ("absent")
is_active(st) == (IF st = "absent" THEN "active" ELSE st) = "active"

\* line 279: a mapping that is not active is passed over
sync_not_active ==
    /\ ~is_active(status)
    /\ Pass("inactive", FALSE, {}, "-", {}, state, "-", NoQuery)

\* lines 289-304: abs_client or kosync_client get_progress raises
sync_fetch_failed ==
    /\ is_active(status)
    /\ \E absRead \in Calls, ksRead \in Calls :
        /\ absRead = "raise" \/ ksRead = "raise"
        /\ Pass("skip", FALSE, {}, "-", {}, state, "-", NoQuery)

\* lines 306-366: nothing crossed its threshold
sync_no_change ==
    /\ is_active(status)
    /\ \E stRead \in StReads :
        LET o == Observed(src, stRead)
            prev == prev_state_of(state)
        IN  /\ ~any_changed(book_len, prev, o)
            /\ Pass("nochange", stRead = "ok", {}, "-", {},
                    saved_after_small(book_len, state, o), "-", NoQuery)

\* lines 374-419: a regression blocks the cycle
sync_regression ==
    /\ is_active(status)
    /\ \E stRead \in StReads :
        LET o == Observed(src, stRead)
            prev == prev_state_of(state)
            cur == small_changes(book_len, prev, o)
        IN  /\ any_changed(book_len, prev, o)
            /\ regression_detected(book_len, cur, o)
            /\ Pass("regress", stRead = "ok", changed_set(book_len, prev, o), "-",
                    {}, match_state(cur, o), "-", NoQuery)

\* The result of a propagation branch.
Outcome(kind, writes, st2) == [kind |-> kind, writes |-> writes, st2 |-> st2]

\* lines 440-469 and 537-554, source == "ABS"
abs_branch(len, s, o, cur, saved, text, loc, ksW, stW) ==
    IF text = "raise" \/ (text = "text" /\ loc.st = "raise")
    THEN Outcome("error", {}, saved)
    ELSE IF text = "empty" \/ loc.st = "none"
    THEN Outcome("snap", {}, match_state(cur, o))
    ELSE IF ksW = "raise"
    THEN Outcome("error", {Write("KOSYNC", loc.pct, FALSE, s.es)}, saved)
    ELSE Outcome("synced",
                 {Write("KOSYNC", loc.pct, TRUE, s.es),
                  Write("STORYTELLER", loc.pct, stW, s.ra)},
                 [cur EXCEPT !.abs_ts = o.ab,
                             !.kosync_pct = loc.pct,
                             !.storyteller_pct = IF stW THEN loc.pct ELSE @,
                             !.kosync_index = matched_index_of(len, loc.pct),
                             !.present = TRUE])

\* a KoSync branch that also writes the position back to KoSync
kosync_branch_echo(s, o, cur, saved, text, mt, absW, stW) ==
    IF text = "raise"
    THEN Outcome("error", {}, saved)
    ELSE IF text = "empty" \/ mt.st = "none"
    THEN Outcome("snap", {}, match_state(cur, o))
    ELSE IF absW = "raise"
    THEN Outcome("error", {Write("ABS", mt.t, FALSE, s.ab)}, saved)
    ELSE Outcome("synced",
                 {Write("ABS", mt.t, TRUE, s.ab),
                  Write("KOSYNC", o.es, TRUE, s.es),
                  Write("STORYTELLER", o.es, stW, s.ra)},
                 [cur EXCEPT !.abs_ts = mt.t,
                             !.kosync_pct = o.es,
                             !.storyteller_pct = IF stW THEN o.es ELSE @,
                             !.present = TRUE])

\* lines 472-496 and 537-554, source == "KOSYNC"
kosync_branch(s, o, cur, saved, text, mt, absW, stW) ==
    IF text = "raise"
    THEN Outcome("error", {}, saved)
    ELSE IF text = "empty" \/ mt.st = "none"
    THEN Outcome("snap", {}, match_state(cur, o))
    ELSE IF absW = "raise"
    THEN Outcome("error", {Write("ABS", mt.t, FALSE, s.ab)}, saved)
    ELSE Outcome("synced",
                 {Write("ABS", mt.t, TRUE, s.ab),
                  Write("STORYTELLER", o.es, stW, s.ra)},
                 [cur EXCEPT !.abs_ts = mt.t,
                             !.kosync_pct = o.es,
                             !.storyteller_pct = IF stW THEN o.es ELSE @,
                             !.present = TRUE])

\* lines 499-535 and 537-554, source == "STORYTELLER".  text is target_text
\* after the fragment attempt and the percentage fallback (target_text below).
storyteller_branch(len, s, o, cur, saved, text, mt, absW, loc, ksW) ==
    IF text = "raise"
    THEN Outcome("error", {}, saved)
    ELSE IF text = "empty" \/ mt.st = "none"
    THEN Outcome("snap", {}, match_state(cur, o))
    ELSE IF absW = "raise"
    THEN Outcome("error", {Write("ABS", mt.t, FALSE, s.ab)}, saved)
    ELSE IF loc.st = "raise"
    THEN Outcome("error", {Write("ABS", mt.t, TRUE, s.ab)}, saved)
    ELSE IF ksW = "raise"
    THEN Outcome("error",
                 {Write("ABS", mt.t, TRUE, s.ab), Write("KOSYNC", o.ra, FALSE, s.es)},
                 saved)
    ELSE Outcome("synced",
                 {Write("ABS", mt.t, TRUE, s.ab), Write("KOSYNC", o.ra, TRUE, s.es)},
                 [cur EXCEPT !.abs_ts = mt.t,
                             !.kosync_pct = o.ra,
                             !.storyteller_pct = o.ra,
                             !.kosync_index = IF loc.st = "found"
                                              THEN matched_index_of(len, loc.pct)
                                              ELSE 0,
                             !.present = TRUE])

\* the guard of the three propagation paths: line 365 falls through and no
\* regression is flagged
propagates(len, st, o) ==
    /\ any_changed(len, prev_state_of(st), o)
    /\ ~regression_detected(len, small_changes(len, prev_state_of(st), o), o)

\* The answers that matter on each path: what comes after a failing step is
\* never asked for.
NoLoc == [st |-> "none", pct |-> 0]
NoTime == [st |-> "none", t |-> 0]

AbsInputs ==
    {[text |-> "raise", loc |-> NoLoc, ksW |-> "ok", stW |-> FALSE],
     [text |-> "empty", loc |-> NoLoc, ksW |-> "ok", stW |-> FALSE]}
    \cup {[text |-> "text", loc |-> l, ksW |-> "ok", stW |-> FALSE] :
            l \in {x \in Locs : x.st # "found"}}
    \cup {[text |-> "text", loc |-> l, ksW |-> "raise", stW |-> FALSE] :
            l \in {x \in Locs : x.st = "found"}}
    \cup {[text |-> "text", loc |-> l, ksW |-> "ok", stW |-> b] :
            l \in {x \in Locs : x.st = "found"}, b \in BOOLEAN}

KosyncInputs ==
    {[text |-> "raise", mt |-> NoTime, absW |-> "ok", stW |-> FALSE],
     [text |-> "empty", mt |-> NoTime, absW |-> "ok", stW |-> FALSE],
     [text |-> "text", mt |-> NoTime, absW |-> "ok", stW |-> FALSE]}
    \cup {[text |-> "text", mt |-> m, absW |-> "raise", stW |-> FALSE] :
            m \in Times \ {NoTime}}
    \cup {[text |-> "text", mt |-> m, absW |-> "ok", stW |-> b] :
            m \in Times \ {NoTime}, b \in BOOLEAN}

\* lines 501-508: get_progress_with_fragment gives no href or fragment id,
\* or get_text_from_storyteller_fragment gives None or "" for them, or it
\* gives the text of the fragment
FragTexts == {"absent", "empty", "text"}

\* lines 503-513: target_text is the fragment text if there is one, else
\* what get_text_at_percentage(ebook_filename, storyteller_progress) gives
target_text(frag, ptext) == IF frag = "text" THEN "text" ELSE ptext

\* the fragment attempt and the origin of target_text
query_of(frag, ptext) ==
    [frag |-> IF frag = "text" THEN "text" ELSE "none",
     from |-> IF frag = "text" THEN "fragment"
              ELSE IF ptext = "text" THEN "fraction" ELSE "-"]

StorytellerInputs ==
    {[text |-> "raise", mt |-> NoTime, absW |-> "ok", loc |-> NoLoc, ksW |-> "ok"],
     [text |-> "empty", mt |-> NoTime, absW |-> "ok", loc |-> NoLoc, ksW |-> "ok"],
     [text |-> "text", mt |-> NoTime, absW |-> "ok", loc |-> NoLoc, ksW |-> "ok"]}
    \cup {[text |-> "text", mt |-> m, absW |-> "raise", loc |-> NoLoc, ksW |-> "ok"] :
            m \in Times \ {NoTime}}
    \cup {[text |-> "text", mt |-> m, absW |-> "ok", loc |-> l, ksW |-> k] :
            m \in Times \ {NoTime}, l \in Locs, k \in Calls}

\* The step of the branch that returned no result ("-" when each returned
\* one, "raised" when one raised an exception): the text of get_text_at_time (line 441) or the match of
\* find_text_location (line 445), ...
abs_nothing(in) ==
    IF in.text = "raise" \/ (in.text = "text" /\ in.loc.st = "raise") THEN "raised"
    ELSE IF in.text = "empty" THEN "text"
    ELSE IF in.text = "text" /\ in.loc.st = "none" THEN "match"
    ELSE "-"

\* ... the text of get_text_at_percentage (line 473) or the match of
\* find_time_for_text (line 476), ...
kosync_nothing(in) ==
    IF in.text = "raise" THEN "raised"
    ELSE IF in.text = "empty" THEN "text"
    ELSE IF in.text = "text" /\ in.mt.st = "none" THEN "match"
    ELSE "-"

\* ... the text of lines 501-513, the match of find_time_for_text (line
\* 517), or the xpath of the find_text_location of line 526, asked for after
\* the Audiobookshelf update of line 523.
storyteller_nothing(in) ==
    IF in.text = "raise" THEN "raised"
    ELSE IF in.text = "text" /\ in.mt.st = "found" /\ in.absW = "ok"
            /\ in.loc.st = "raise" THEN "raised"
    ELSE IF in.text = "empty" THEN "text"
    ELSE IF in.text = "text" /\ in.mt.st = "none" THEN "match"
    ELSE IF in.text = "text" /\ in.absW = "ok" /\ in.loc.st = "none" THEN "xpath"
    ELSE "-"

sync_abs ==
    /\ is_active(status)
    /\ \E stRead \in StReads :
        LET o == Observed(src, stRead)
            prev == prev_state_of(state)
            cur == small_changes(book_len, prev, o)
            saved == saved_after_small(book_len, state, o)
        IN  /\ propagates(book_len, state, o)
            /\ source_of(book_len, prev, o) = "ABS"
            /\ \E in \in AbsInputs :
                LET r == abs_branch(book_len, src, o, cur, saved, in.text, in.loc,
                                    in.ksW, in.stW)
                IN  Pass(r.kind, stRead = "ok", changed_set(book_len, prev, o),
                         "ABS", r.writes, r.st2, abs_nothing(in), NoQuery)

sync_kosync ==
    /\ is_active(status)
    /\ \E stRead \in StReads :
        LET o == Observed(src, stRead)
            prev == prev_state_of(state)
            cur == small_changes(book_len, prev, o)
            saved == saved_after_small(book_len, state, o)
        IN  /\ propagates(book_len, state, o)
            /\ source_of(book_len, prev, o) = "KOSYNC"
            /\ \E in \in KosyncInputs :
                LET r == kosync_branch(src, o, cur, saved, in.text, in.mt,
                                       in.absW, in.stW)
                IN  Pass(r.kind, stRead = "ok", changed_set(book_len, prev, o),
                         "KOSYNC", r.writes, r.st2, kosync_nothing(in), NoQuery)

sync_storyteller ==
    /\ is_active(status)
    /\ \E stRead \in StReads :
        LET o == Observed(src, stRead)
            prev == prev_state_of(state)
            cur == small_changes(book_len, prev, o)
            saved == saved_after_small(book_len, state, o)
        IN  /\ propagates(book_len, state, o)
            /\ source_of(book_len, prev, o) = "STORYTELLER"
            /\ \E in \in StorytellerInputs :
                LET r == storyteller_branch(book_len, src, o, cur, saved, in.text,
                                            in.mt, in.absW, in.loc, in.ksW)
                IN  Pass(r.kind, stRead = "ok", changed_set(book_len, prev, o),
                         "STORYTELLER", r.writes, r.st2, storyteller_nothing(in),
                         NoQuery)

\* The same pass with lines 501-513 spelled out: target_text comes from the
\* fragment attempt or from the percentage fallback.
sync_storyteller_fragment ==
    /\ is_active(status)
    /\ \E stRead \in StReads :
        LET o == Observed(src, stRead)
            prev == prev_state_of(state)
            cur == small_changes(book_len, prev, o)
            saved == saved_after_small(book_len, state, o)
        IN  /\ propagates(book_len, state, o)
            /\ source_of(book_len, prev, o) = "STORYTELLER"
            /\ \E frag \in FragTexts, ans \in StorytellerInputs :
                LET in == [ans EXCEPT !.text = target_text(frag, ans.text)]
                    r == storyteller_branch(book_len, src, o, cur, saved, in.text,
                                            in.mt, in.absW, in.loc, in.ksW)
                IN  Pass(r.kind, stRead = "ok", changed_set(book_len, prev, o),
                         "STORYTELLER", r.writes, r.st2, storyteller_nothing(in),
                         query_of(frag, ans.text))

sync_cycle ==
    \/ sync_not_active
    \/ sync_fetch_failed
    \/ sync_no_change
    \/ sync_regression
    \/ sync_abs
    \/ sync_kosync
    \/ sync_storyteller

(***************************************************************************)
(* The users: a position is changed in one of the three services.          *)
(***************************************************************************)
user_moves_abs ==
    /\ \E v \in ABVals \ {src.ab} : src' = [src EXCEPT !.ab = v]
    /\ cyc' = NoCycle
    /\ UNCHANGED <<status, book_len, state>>

user_moves_kosync ==
    /\ \E v \in PctVals \ {src.es} : src' = [src EXCEPT !.es = v]
    /\ cyc' = NoCycle
    /\ UNCHANGED <<status, book_len, state>>

user_moves_storyteller ==
    /\ \E v \in PctVals \ {src.ra} : src' = [src EXCEPT !.ra = v]
    /\ cyc' = NoCycle
    /\ UNCHANGED <<status, book_len, state>>

(***************************************************************************)
(* The reconciliation of one mapping.                                      *)
(***************************************************************************)
InitSync ==
    /\ status \in {"active", "pending"}
    /\ book_len \in BookLens
    /\ src \in [ab : ABVals, es : PctVals, ra : PctVals]
    /\ state = defaults
    /\ cyc = NoCycle

InitSyncIdle ==
    /\ status = "pending"
    /\ book_len = 100
    /\ src = [ab |-> 2000, es |-> 0, ra |-> 0]
    /\ state = defaults
    /\ cyc = NoCycle

InitStoreIdle ==
    /\ db_file = <<>>
    /\ web_db = <<>>
    /\ queue = <<>>

InitRaIdle ==
    /\ rows = <<>>
    /\ sess = 0
    /\ now_ms = 0
    /\ call = [kind |-> "none"]

InitDaemonIdle ==
    /\ up = FALSE
    /\ running = {}
    /\ daemon_db = <<>>
    /\ transcripts = {}
    /\ primed = {}
    /\ hist = [kind |-> "none"]

\* a file on disk: absent, a complete JSON document (version v of the data),
\* or torn: opened for writing and not yet, or never, completely written
Absent       == [kind |-> "absent", v |-> 0]
Complete(v)  == [kind |-> "complete", v |-> v]
Torn(v)      == [kind |-> "torn", v |-> v]
NotSaving    == [f |-> "none", v |-> 0, prev |-> Absent]
NotLoaded    == [f |-> "none", saw |-> "none", kind |-> "none", v |-> 0]

InitFilesIdle ==
    /\ files = [db |-> Absent, state |-> Absent]
    /\ saving = NotSaving
    /\ loaded = NotLoaded

\* an empty states table: _load_state without a file returns {}
NoStates == [i \in {} |-> 0]
NoReturn == [op |-> "none", abs_id |-> "-", value |-> FALSE, deleted |-> FALSE]

InitRegIdle ==
    /\ self_state = NoStates
    /\ state_file = NoStates
    /\ ret = NoReturn

\* no folder under DEST_BASE holds a readaloud file
NoFolder == [ra |-> 0, others |-> FALSE, other |-> 0, open |-> FALSE,
             node |-> FALSE, dest |-> FALSE]
NoMonitor == [by |-> "none", did |-> "none", lsof |-> "-", ps |-> "-",
              before |-> NoFolder]

InitMonIdle ==
    /\ folder = NoFolder
    /\ mon = NoMonitor

Init ==
    InitSync /\ InitStoreIdle /\ InitRaIdle /\ InitDaemonIdle /\ InitFilesIdle
        /\ InitRegIdle
        /\ InitMonIdle

Next ==
    \/ sync_not_active /\ UNCHANGED <<storeVars, raVars, daemonVars, fileVars, regVars, monVars>>
    \/ sync_fetch_failed /\ UNCHANGED <<storeVars, raVars, daemonVars, fileVars, regVars, monVars>>
    \/ sync_no_change /\ UNCHANGED <<storeVars, raVars, daemonVars, fileVars, regVars, monVars>>
    \/ sync_regression /\ UNCHANGED <<storeVars, raVars, daemonVars, fileVars, regVars, monVars>>
    \/ sync_abs /\ UNCHANGED <<storeVars, raVars, daemonVars, fileVars, regVars, monVars>>
    \/ sync_kosync /\ UNCHANGED <<storeVars, raVars, daemonVars, fileVars, regVars, monVars>>
    \/ sync_storyteller /\ UNCHANGED <<storeVars, raVars, daemonVars, fileVars, regVars, monVars>>
    \/ user_moves_abs /\ UNCHANGED <<storeVars, raVars, daemonVars, fileVars, regVars, monVars>>
    \/ user_moves_kosync /\ UNCHANGED <<storeVars, raVars, daemonVars, fileVars, regVars, monVars>>
    \/ user_moves_storyteller /\ UNCHANGED <<storeVars, raVars, daemonVars, fileVars, regVars, monVars>>

Spec == Init /\ [][Next]_vars

(***************************************************************************)
(* Properties of the reconciliation.                                       *)
(*                                                                         *)
(* A step that leaves cyc.kind different from "none" is a pass of          *)
(* sync_cycle over the mapping: cyc is then the record of the pass before  *)
(* it, with no change from outside in between (a user's move resets cyc),  *)
(* state and src are the stored state and the services the pass started    *)
(* from, and the primed ones are what it left.                             *)
(***************************************************************************)
\* passes that read the three services and went on to compare
Completed == {"nochange", "regress", "synced", "snap", "error"}
\* passes that reached the propagation step
Propagating == {"synced", "snap", "error"}

Triple(st) == [ab |-> st.abs_ts, es |-> st.kosync_pct, ra |-> st.storyteller_pct]

\* what the pass recorded in c read, given the services s it started from
ObservedBy(c, s) == Observed(s, IF c.readok THEN "ok" ELSE "none")

\* C1 (no self-echo): when two passes follow each other with no change from
\* outside, both having read all three services and the first having ended
\* without an exception, the second sets no change flag and makes no
\* update_progress call.
C1_NoSelfEcho ==
    [][ ( /\ cyc.kind \in Completed \ {"error"}
          /\ cyc.readok
          /\ cyc'.kind \in Completed
          /\ cyc'.readok )
        => (cyc'.changed = {} /\ cyc'.writes = {}) ]_vars

\* C2 (idempotence): after a pass whose propagation was saved with every
\* write succeeding, the next pass, with nothing changed from outside, makes
\* no update_progress call.
C2_Idempotence ==
    [][ ( /\ cyc.kind = "synced"
          /\ \A w \in cyc.writes : w.ok
          /\ cyc'.kind # "none" )
        => cyc'.writes = {} ]_vars

\* C3 (convergence): after two passes in a row that read the services, with
\* no change from outside, the stored triple is the triple the second pass
\* read, or the triple the services hold after it.
C3_Convergence ==
    [][ ( /\ cyc.kind \in Completed
          /\ cyc'.kind \in Completed )
        => ( \/ Triple(state') = ObservedBy(cyc', src)
             \/ Triple(state') = src' ) ]_vars

\* the regression of the claim, in its own words: a source that crossed its
\* threshold reports less than the stored value by more than 5% (of the
\* fraction scale for KoSync and Storyteller, of the stored seconds for ABS)
RegressedBeyond(prev, o) ==
    \/ prev.abs_ts - o.ab > 60 /\ (prev.abs_ts - o.ab) * 100 > 5 * prev.abs_ts
    \/ prev.kosync_pct - o.es > 50
    \/ prev.storyteller_pct - o.ra > 50

\* C4 (regression gate): a pass in which a changed source reports a value
\* below its stored value by more than the regression threshold makes no
\* update_progress call, leaves the services alone and stores the triple it
\* read, whatever the other two sources did.
C4_RegressionGate ==
    [][ ( /\ cyc'.kind \in Completed
          /\ RegressedBeyond(prev_state_of(state), ObservedBy(cyc', src)) )
        => ( /\ cyc'.writes = {}
             /\ src' = src
             /\ state'.present
             /\ Triple(state') = ObservedBy(cyc', src) ) ]_vars

\* a regression was blocked in a pass where two sources had crossed their
\* thresholds
C4_Witness ==
    /\ cyc.kind = "regress"
    /\ Cardinality(cyc.changed) >= 2
    /\ state.present

Priority(changed) ==
    IF "ABS" \in changed THEN "ABS"
    ELSE IF "KOSYNC" \in changed THEN "KOSYNC" ELSE "STORYTELLER"

\* C5 (priority): a pass that propagates takes ABS if ABS changed, else
\* KoSync, else Storyteller; and after a saved propagation in which several
\* sources had changed, the sources that lost do not become the propagating
\* source of the next pass when nothing moved in between.
C5_Priority ==
    [][ /\ (cyc'.kind \in Propagating => cyc'.source = Priority(cyc'.changed))
        /\ ( ( /\ cyc.kind = "synced"
               /\ cyc.readok
               /\ Cardinality(cyc.changed) >= 2
               /\ cyc'.kind \in Propagating
               /\ cyc'.readok )
             => cyc'.source \notin (cyc.changed \ {cyc.source}) ) ]_vars

\* C6 (no rollback): no update_progress call that took effect set a service
\* to a position earlier than the one it held.
C6_NoRollback == \A w \in cyc.writes : w.ok => w.val >= w.held

\* C7 (collect is fail-safe): a pass in which reading one of the three
\* services failed makes no update_progress call and leaves the stored state
\* as it was.
C7_CollectFailSafe ==
    [][ (cyc'.kind # "none" /\ ~cyc'.readok)
        => (cyc'.writes = {} /\ state' = state) ]_vars

(***************************************************************************)
(* The mapping registry.  The web process keeps manager.db in memory and   *)
(* saves it to mapping_db.json; the daemon loads the file at the start of  *)
(* check_pending_jobs and of sync_cycle.  A mapping is kept here as its    *)
(* abs_id and its status.                                                  *)
(***************************************************************************)
Ids == {"a", "b"}
MaxMappings == 3
MaxQueue == 2

\* a record as web_server.match makes it (transcript_file None)
Mapping(id, st) == [abs_id |-> id, status |-> st, transcript_file |-> "none"]

\* [m for m in mappings if m['abs_id'] != abs_id]
without(db, id) ==
    LET keep(m) == m.abs_id # id IN SelectSeq(db, keep)

\* the append of add_mapping
appended(db, id) ==
    Append(db, [Mapping(id, "pending_transcript") EXCEPT !.transcript_file = "set"])

\* SyncManager.add_mapping
add_mapping ==
    /\ \E id \in Ids :
        /\ Len(web_db) < MaxMappings
        /\ web_db' = appended(web_db, id)
        /\ db_file' = web_db'
    /\ UNCHANGED queue

\* del self.state[abs_id]
state_without_kept(st, id) == st

state_without(st, id) == [i \in DOMAIN st \ {id} |-> st[i]]

\* the call, what it returned and whether it deleted a state entry
Returned(id, value, deleted) ==
    [op |-> "remove_mapping", abs_id |-> id, value |-> value, deleted |-> deleted]

\* SyncManager.remove_mapping
remove_mapping ==
    /\ \E id \in Ids :
        /\ web_db' = without(web_db, id)
        /\ IF Len(web_db') < Len(web_db)
           THEN /\ db_file' = web_db'
                /\ IF id \in DOMAIN self_state
                   THEN /\ self_state' = state_without(self_state, id)
                        /\ state_file' = self_state'
                   ELSE UNCHANGED <<self_state, state_file>>
                /\ ret' = Returned(id, TRUE, id \in DOMAIN self_state)
           ELSE /\ UNCHANGED <<db_file, self_state, state_file>>
                /\ ret' = Returned(id, FALSE, FALSE)
    /\ UNCHANGED queue

\* web_server.match, POST
match ==
    /\ \E id \in Ids :
        /\ web_db' = Append(without(web_db, id), Mapping(id, "pending"))
        /\ Len(web_db') <= MaxMappings
        /\ db_file' = web_db'
    /\ UNCHANGED queue

\* web_server.batch_match, action add_to_queue
add_to_queue ==
    /\ \E id \in Ids :
        /\ Len(queue) < MaxQueue
        /\ queue' = IF \E i \in 1..Len(queue) : queue[i] = id
                    THEN queue ELSE Append(queue, id)
        /\ queue' # queue
    /\ UNCHANGED <<db_file, web_db>>

\* web_server.batch_match, action remove_from_queue
remove_from_queue ==
    /\ \E id \in Ids :
        LET keep(x) == x # id
        IN  /\ queue' = SelectSeq(queue, keep)
            /\ queue' # queue
    /\ UNCHANGED <<db_file, web_db>>

\* web_server.batch_match, action clear_queue
clear_queue ==
    /\ queue # <<>>
    /\ queue' = <<>>
    /\ UNCHANGED <<db_file, web_db>>

\* the loop of process_queue over the queue; found holds the items whose
\* ebook is on disk
RECURSIVE process_items(_, _, _)
process_items(db, q, found) ==
    IF q = <<>> THEN db
    ELSE process_items(IF Head(q) \in found
                       THEN Append(without(db, Head(q)), Mapping(Head(q), "pending"))
                       ELSE db,
                       Tail(q), found)

\* web_server.batch_match, action process_queue
process_queue ==
    /\ \E found \in SUBSET Ids :
        /\ web_db' = process_items(db_file, queue, found)
        /\ Len(web_db') <= MaxMappings
    /\ db_file' = web_db'
    /\ queue' = <<>>

\* web_server.delete_mapping
delete_mapping ==
    /\ \E id \in Ids :
        /\ web_db' = without(web_db, id)
        /\ db_file' = web_db'
    /\ UNCHANGED queue

\* web_server.index: the dashboard reloads the file
index ==
    /\ web_db' = db_file
    /\ self_state' = state_file
    /\ <<web_db', self_state'>> # <<web_db, self_state>>
    /\ ret' = NoReturn
    /\ UNCHANGED <<db_file, queue, state_file>>

\* what check_pending_jobs can make of one mapping: a pending job fails for
\* want of audio files, completes or raises; a pending_transcript mapping
\* waits or finds its transcript
job_results(m) ==
    IF m.status = "pending"
    THEN {"failed", "active", "failed_retry_later"}
    ELSE IF m.status = "pending_transcript"
    THEN {"pending_transcript", "active"}
    ELSE {m.status}

\* SyncManager.check_pending_jobs, in the daemon
check_pending_jobs ==
    /\ \E out \in [1..Len(db_file) -> {"pending_transcript", "active", "failed",
                                       "failed_retry_later", "pending"}] :
        /\ \A i \in 1..Len(db_file) : out[i] \in job_results(db_file[i])
        /\ db_file' = [i \in 1..Len(db_file) |->
                          [db_file[i] EXCEPT !.status = out[i]]]
    /\ db_file' # db_file
    /\ UNCHANGED <<web_db, queue>>

InitStore ==
    InitSyncIdle /\ InitStoreIdle /\ InitRaIdle /\ InitDaemonIdle /\ InitFilesIdle
        /\ InitRegIdle
        /\ InitMonIdle

NextStore ==
    \/ add_mapping /\ UNCHANGED <<syncVars, raVars, daemonVars, fileVars, regVars, monVars>>
    \/ remove_mapping /\ UNCHANGED <<syncVars, raVars, daemonVars, fileVars, monVars>>
    \/ match /\ UNCHANGED <<syncVars, raVars, daemonVars, fileVars, regVars, monVars>>
    \/ add_to_queue /\ UNCHANGED <<syncVars, raVars, daemonVars, fileVars, regVars, monVars>>
    \/ remove_from_queue /\ UNCHANGED <<syncVars, raVars, daemonVars, fileVars, regVars, monVars>>
    \/ clear_queue /\ UNCHANGED <<syncVars, raVars, daemonVars, fileVars, regVars, monVars>>
    \/ process_queue /\ UNCHANGED <<syncVars, raVars, daemonVars, fileVars, regVars, monVars>>
    \/ delete_mapping /\ UNCHANGED <<syncVars, raVars, daemonVars, fileVars, regVars, monVars>>
    \/ index /\ UNCHANGED <<syncVars, raVars, daemonVars, fileVars, monVars>>
    \/ check_pending_jobs /\ UNCHANGED <<syncVars, raVars, daemonVars, fileVars, regVars, monVars>>

SpecStore == InitStore /\ [][NextStore]_vars

Unique(db) ==
    \A i, j \in 1..Len(db) : db[i].abs_id = db[j].abs_id => i = j

\* C8 (mapping uniqueness): the mappings file and the table in memory hold
\* at most one mapping for each abs_id.
C8_UniqueMapping == Unique(db_file) /\ Unique(web_db)

(***************************************************************************)
(* The Storyteller database writer (storyteller_db.py).  rows are the      *)
(* position rows of the book the ebook file name matches, sess is the      *)
(* updated_at of the user's latest session (NoSession: the user has none). *)
(* The Storyteller app writes the same rows with its own clock.            *)
(***************************************************************************)
MaxRows == 2
MaxTicks == 1
\* the datetime.now() values the model steps through
TickMs == 60 * 1000
\* how far ahead of the local clock the app's clock can be
AppSkewMs == 2 * TickMs
\* the positions the app saves, and the positions update_progress is given
AppPcts == {0, 45}
WritePcts == {0, 55}
\* the leapfrog of _get_timestamp_formats, in milliseconds
LEAPFROG_MS == 60 * 1000

Row(pct, ts) == [pct |-> pct, ts |-> ts]

\* the session table holds no row for the user
NoSession == 0 - 1

\* a timestamp_ms that is the clock alone, without the leapfrog
timestamp_without_leapfrog(now) == now

\* StorytellerDB._get_timestamp_formats: timestamp_ms
timestamp_ms(now) == now + LEAPFROG_MS

\* the UPDATE position statement for one row
updated_row(pct, now) == Row(pct, timestamp_ms(now))

\* _update_session: the updated_at of the user's latest session, unless
\* there is none (rowcount 0) or the statement fails (the error is logged
\* and the row loop goes on)
updated_session(s, now, sessFail) ==
    IF sessFail \/ s = NoSession THEN s ELSE now

\* a row loop without _get_connection's rollback: the rows updated before
\* the error stay updated
rows_after_partial(old, pct, now, fault) ==
    [i \in 1..Len(old) |->
        IF fault.kind = "none" \/ (fault.kind = "row" /\ i < fault.at)
        THEN updated_row(pct, now)
        ELSE old[i]]

\* _get_connection around the row loop: commit when the block ends, rollback
\* when it raises (at a row, or in the commit itself)
rows_after(old, pct, now, fault) ==
    IF fault.kind = "none"
    THEN [i \in 1..Len(old) |-> updated_row(pct, now)]
    ELSE old

\* what can go wrong inside the transaction: nothing, an error at the
\* UPDATE of row at, an error in the commit
Faults(n) ==
    {[kind |-> "none", at |-> 0], [kind |-> "commit", at |-> 0]}
        \cup {[kind |-> "row", at |-> k] : k \in 1..n}

NoCall == [kind |-> "none"]

\* StorytellerDB.update_progress
update_progress ==
    \E pct \in WritePcts, found \in BOOLEAN, sessFail \in BOOLEAN :
        \E fault \in Faults(Len(rows)) :
            LET ran == found /\ rows # <<>>
                ok == ran /\ fault.kind = "none"
            IN  /\ (~ran => fault.kind = "none" /\ ~sessFail)
                /\ rows' = IF ran THEN rows_after(rows, pct, now_ms, fault) ELSE rows
                /\ sess' = IF ok THEN updated_session(sess, now_ms, sessFail) ELSE sess
                /\ call' = [kind |-> "update", ret |-> ok, pct |-> pct,
                            now |-> now_ms, before |-> rows, sess_before |-> sess,
                            sessFail |-> sessFail, found |-> found]
                /\ UNCHANGED now_ms

\* the Storyteller app saves a position, stamped with its own clock
app_writes_position ==
    /\ \E i \in 1..Len(rows), pct \in AppPcts, skew \in {0, AppSkewMs} :
        rows' = [rows EXCEPT ![i] = Row(pct, now_ms + skew)]
    /\ rows' # rows
    /\ call' = NoCall
    /\ UNCHANGED <<sess, now_ms>>

\* a position row for the book appears (a user opens the book)
app_adds_position ==
    /\ Len(rows) < MaxRows
    /\ \E pct \in AppPcts, skew \in {0, AppSkewMs} :
        rows' = Append(rows, Row(pct, now_ms + skew))
    /\ call' = NoCall
    /\ UNCHANGED <<sess, now_ms>>

\* time passes
tick ==
    /\ now_ms < MaxTicks * TickMs
    /\ now_ms' = now_ms + TickMs
    /\ call' = NoCall
    /\ UNCHANGED <<rows, sess>>

InitRa ==
    /\ InitSyncIdle
    /\ InitStoreIdle
    /\ InitDaemonIdle
    /\ InitFilesIdle
    /\ InitRegIdle
    /\ InitMonIdle
    /\ rows = <<>>
    /\ sess \in {NoSession, 0}
    /\ now_ms = 0
    /\ call = NoCall

NextRa ==
    \/ update_progress /\ UNCHANGED <<syncVars, storeVars, daemonVars, fileVars, regVars, monVars>>
    \/ app_writes_position /\ UNCHANGED <<syncVars, storeVars, daemonVars, fileVars, regVars, monVars>>
    \/ app_adds_position /\ UNCHANGED <<syncVars, storeVars, daemonVars, fileVars, regVars, monVars>>
    \/ tick /\ UNCHANGED <<syncVars, storeVars, daemonVars, fileVars, regVars, monVars>>

SpecRa == InitRa /\ [][NextRa]_vars

Max(a, b) == IF a >= b THEN a ELSE b

C10_AtomicAll ==
    (call.kind = "update") =>
        /\ call.ret =>
            /\ \A i \in 1..Len(rows) : rows[i] = Row(call.pct, call.now + 60000)
            /\ call.sess_before # NoSession => sess = call.now
        /\ ~call.ret => rows = call.before

\* C10 as amended: update_progress returns True only if every position row
\* of the book was written and committed, and the user's session row has
\* then been written with them unless the user has no session or the
\* session statement itself failed; when it returns False neither a
\* position row nor the session row has changed.
C10_AtomicPositions ==
    (call.kind = "update") =>
        /\ call.ret =>
            /\ rows # <<>>
            /\ Len(rows) = Len(call.before)
            /\ \A i \in 1..Len(rows) : rows[i] = Row(call.pct, call.now + 60000)
            /\ sess = IF call.sessFail \/ call.sess_before = NoSession
                      THEN call.sess_before
                      ELSE call.now
        /\ ~call.ret => (rows = call.before /\ sess = call.sess_before)

\* an update that failed at its second row, after the first row's UPDATE
\* had run, on rows that differ from what it was writing
C10_Witness ==
    /\ call.kind = "update"
    /\ ~call.ret
    /\ call.found
    /\ Len(call.before) = 2
    /\ rows = call.before
    /\ rows[1] # Row(call.pct, call.now + 60000)

(***************************************************************************)
(* The daemon (main.py): SyncManager.__init__ with cleanup_stale_jobs,     *)
(* then run_daemon, which runs sync_cycle and check_pending_jobs from one  *)
(* loop.  Each task walks self.db['mappings'] by position; a task in       *)
(* progress is a record of running.  The process can die at any point and  *)
(* be started again; mapping_db.json (db_file) is what survives.  A        *)
(* mapping is kept here as abs_id, status and whether transcript_file is   *)
(* set.                                                                    *)
(***************************************************************************)
JobMapping(id, st, tf) == [abs_id |-> id, status |-> st, transcript_file |-> tf]

\* the mappings a deployment starts from: made by the UI's match (pending,
\* no transcript_file), by add_mapping (pending_transcript), or found in a
\* file written before (crashed; pending_transcript without a path)
FreshMappings(id) ==
    {JobMapping(id, "pending", "none"),
     JobMapping(id, "pending_transcript", "set"),
     JobMapping(id, "pending_transcript", "none"),
     JobMapping(id, "crashed", "set")}

InitialFiles ==
    {<<m>> : m \in FreshMappings("a")}
        \cup {<<m, n>> : m \in FreshMappings("a"), n \in FreshMappings("b")}

Activity(task, i, claimed) == [task |-> task, i |-> i, claimed |-> claimed]

NoHist == [kind |-> "none", visited |-> {}, active |-> {}]

\* a run_pending that does not wait for the task before it
may_start_threaded(r) == TRUE

\* run_daemon: schedule.run_pending runs a due task in the loop's own
\* thread, so the next one starts when the last has returned
may_start(r) == r = {}

\* a recovery that resets failed jobs as well as crashed ones
cleanup_failed_jobs(db) ==
    [i \in 1..Len(db) |->
        IF db[i].status \in {"crashed", "failed"}
        THEN [db[i] EXCEPT !.status = "active"]
        ELSE db[i]]

\* a recovery that queues the crashed and the active mappings again
cleanup_requeues_jobs(db) ==
    [i \in 1..Len(db) |->
        IF db[i].status \in {"crashed", "active"}
        THEN [db[i] EXCEPT !.status = "pending"]
        ELSE db[i]]

\* SyncManager.cleanup_stale_jobs
cleanup_stale_jobs(db) ==
    [i \in 1..Len(db) |->
        IF db[i].status = "crashed" THEN [db[i] EXCEPT !.status = "active"] ELSE db[i]]

\* SyncManager.__init__: _load_db, then cleanup_stale_jobs with its save
startup ==
    /\ ~up
    /\ up' = TRUE
    /\ daemon_db' = cleanup_stale_jobs(db_file)
    /\ db_file' = daemon_db'
    /\ running' = {}
    /\ hist' = [NoHist EXCEPT !.kind = "startup"]
    /\ UNCHANGED <<transcripts, primed>>

\* the process dies (killed, power lost); the file stays as it is
crash ==
    /\ up
    /\ up' = FALSE
    /\ running' = {}
    /\ daemon_db' = <<>>
    /\ hist' = [NoHist EXCEPT !.kind = "crash"]
    /\ UNCHANGED <<db_file, transcripts, primed>>

ActiveAt(db) == {i \in 1..Len(db) : db[i].status = "active"}

\* sync_cycle, lines 272-276: the mappings are loaded and the loop begins
sync_cycle_begins ==
    /\ up
    /\ may_start(running)
    /\ db_file # <<>>
    /\ daemon_db' = db_file
    /\ running' = running \cup {Activity("sync", 1, FALSE)}
    /\ hist' = [kind |-> "cycle", visited |-> {}, active |-> ActiveAt(db_file)]
    /\ UNCHANGED <<up, db_file, transcripts, primed>>

\* where the pass over one mapping can raise
ErrorPoints ==
    {"none", "fetch", "save_small", "char_delta", "save_regression",
     "translate", "write", "save_final"}

\* the error points no try block of sync_cycle covers: _save_state in the
\* small-change blocks (334, 352, 361), get_character_delta (341) and
\* _save_state after a regression (418)
escapes(ep) == ep \in {"save_small", "char_delta", "save_regression"}

\* sync_cycle, lines 278-554: the pass over the mapping at position a.i, or
\* the end of the loop.  An exception that escapes sync_cycle ends the cycle;
\* whether the loop of run_daemon outlives it is schedule's doing (dies).
sync_cycle_step ==
    \E a \in running :
        /\ a.task = "sync"
        /\ IF a.i > Len(daemon_db)
           THEN /\ running' = running \ {a}
                /\ hist' = [hist EXCEPT !.kind = "cycle_end"]
                /\ UNCHANGED <<up, daemon_db>>
           ELSE IF daemon_db[a.i].status # "active"
           THEN /\ running' = (running \ {a}) \cup {Activity("sync", a.i + 1, FALSE)}
                /\ UNCHANGED <<up, daemon_db, hist>>
           ELSE \E ep \in ErrorPoints, dies \in BOOLEAN :
                    IF escapes(ep)
                    THEN /\ up' = ~dies
                         /\ running' = IF dies THEN {} ELSE running \ {a}
                         /\ daemon_db' = IF dies THEN <<>> ELSE daemon_db
                         /\ hist' = [hist EXCEPT !.kind = "cycle_end",
                                                 !.visited = @ \cup {a.i}]
                    ELSE /\ running' = (running \ {a})
                                          \cup {Activity("sync", a.i + 1, FALSE)}
                         /\ hist' = [hist EXCEPT !.visited = @ \cup {a.i}]
                         /\ UNCHANGED <<up, daemon_db>>
        /\ UNCHANGED <<db_file, transcripts, primed>>

\* check_pending_jobs, line 211: the mappings are loaded and the loop begins
check_pending_jobs_begins ==
    /\ up
    /\ may_start(running)
    /\ daemon_db' = db_file
    /\ running' = running \cup {Activity("jobs", 1, FALSE)}
    /\ hist' = [NoHist EXCEPT !.kind = "tick"]
    /\ UNCHANGED <<up, db_file, transcripts, primed>>

\* one mapping of the loop with a new status, as saved by _save_db
with_status(db, i, st) == [db EXCEPT ![i].status = st]

\* a wait that activates the mapping whether or not the file is there
waited_transcript_unchecked(db, i, there, saveRaises) ==
    IF db[i].transcript_file = "none" THEN db ELSE with_status(db, i, "active")

\* lines 247-265: the pending_transcript mapping at position i.  Nothing
\* is done without a path or without the file; with the file the mapping is
\* activated and saved, and failed_retry_later is what an exception there
\* (the save is all that can raise) leaves.
waited_transcript(db, i, there, saveRaises) ==
    IF db[i].transcript_file = "none" \/ ~there
    THEN db
    ELSE IF saveRaises
    THEN with_status(db, i, "failed_retry_later")
    ELSE with_status(db, i, "active")

\* check_pending_jobs, lines 212-221 and 247-265: the loop reaches the
\* mapping at position a.i, or its end
check_pending_jobs_step ==
    \E a \in running :
        /\ a.task = "jobs"
        /\ ~a.claimed
        /\ IF a.i > Len(daemon_db)
           THEN /\ running' = running \ {a}
                /\ hist' = [hist EXCEPT !.kind = "tick_end"]
                /\ UNCHANGED <<daemon_db, db_file>>
           ELSE IF daemon_db[a.i].status = "pending"
           THEN /\ daemon_db' = with_status(daemon_db, a.i, "processing")
                /\ db_file' = daemon_db'
                /\ running' = (running \ {a}) \cup {Activity("jobs", a.i, TRUE)}
                /\ UNCHANGED hist
           ELSE IF daemon_db[a.i].status = "pending_transcript"
           THEN /\ \E saveRaises \in BOOLEAN :
                    daemon_db' = waited_transcript(daemon_db, a.i,
                                     daemon_db[a.i].abs_id \in transcripts, saveRaises)
                /\ db_file' = IF daemon_db' = daemon_db THEN db_file ELSE daemon_db'
                /\ running' = (running \ {a}) \cup {Activity("jobs", a.i + 1, FALSE)}
                /\ hist' = [hist EXCEPT !.kind = "waited", !.visited = {a.i}]
           ELSE /\ running' = (running \ {a}) \cup {Activity("jobs", a.i + 1, FALSE)}
                /\ UNCHANGED <<daemon_db, db_file, hist>>
        /\ UNCHANGED <<up, transcripts, primed>>

\* how the job of a pending mapping can go: get_audio_files returns nothing
\* or raises, process_audio raises, extract_text_and_map raises, the save
\* of the active status raises, or all of it succeeds
JobOutcomes ==
    {"no_audio", "audio_raises", "transcribe_raises", "prime_raises",
     "save_raises", "ok"}

\* lines 223-245: the status the job leaves
job_status(out) ==
    IF out = "ok" THEN "active"
    ELSE IF out = "no_audio" THEN "failed"
    ELSE "failed_retry_later"

\* process_audio has returned the transcript's path
transcribed(out) == out \in {"prime_raises", "save_raises", "ok"}

\* extract_text_and_map has returned
ebook_primed(out) == out \in {"save_raises", "ok"}

\* check_pending_jobs, lines 223-245: the job of the mapping that was set
\* to processing
check_pending_jobs_job ==
    \E a \in running :
        /\ a.task = "jobs"
        /\ a.claimed
        /\ \E out \in JobOutcomes :
            LET id == daemon_db[a.i].abs_id
            IN  /\ daemon_db' =
                       [daemon_db EXCEPT
                           ![a.i].status = job_status(out),
                           ![a.i].transcript_file =
                               IF ebook_primed(out) THEN "set" ELSE @]
                /\ db_file' = daemon_db'
                /\ transcripts' = IF transcribed(out) THEN transcripts \cup {id}
                                  ELSE transcripts
                /\ primed' = IF ebook_primed(out) THEN primed \cup {id} ELSE primed
        /\ running' = (running \ {a}) \cup {Activity("jobs", a.i + 1, FALSE)}
        /\ UNCHANGED <<up, hist>>

\* the side pipeline writes a mapping's transcript file
transcript_appears ==
    /\ \E i \in 1..Len(db_file) :
        /\ db_file[i].abs_id \notin transcripts
        /\ transcripts' = transcripts \cup {db_file[i].abs_id}
    /\ UNCHANGED <<up, running, daemon_db, db_file, primed, hist>>

\* a transcript file is deleted from the data directory
transcript_removed ==
    /\ \E id \in transcripts : transcripts' = transcripts \ {id}
    /\ UNCHANGED <<up, running, daemon_db, db_file, primed, hist>>

InitDaemon ==
    /\ InitSyncIdle
    /\ InitRaIdle
    /\ InitFilesIdle
    /\ InitRegIdle
    /\ InitMonIdle
    /\ db_file \in InitialFiles
    /\ web_db = <<>>
    /\ queue = <<>>
    /\ up = FALSE
    /\ running = {}
    /\ daemon_db = <<>>
    /\ transcripts = {}
    /\ primed = {}
    /\ hist = NoHist

daemonRest == <<syncVars, raVars, fileVars, regVars, monVars, web_db, queue>>

NextDaemon ==
    \/ startup /\ UNCHANGED daemonRest
    \/ crash /\ UNCHANGED daemonRest
    \/ sync_cycle_begins /\ UNCHANGED daemonRest
    \/ sync_cycle_step /\ UNCHANGED daemonRest
    \/ check_pending_jobs_begins /\ UNCHANGED daemonRest
    \/ check_pending_jobs_step /\ UNCHANGED daemonRest
    \/ check_pending_jobs_job /\ UNCHANGED daemonRest
    \/ transcript_appears /\ UNCHANGED daemonRest
    \/ transcript_removed /\ UNCHANGED daemonRest

SpecDaemon == InitDaemon /\ [][NextDaemon]_vars

(***************************************************************************)
(* Properties of the daemon.                                               *)
(***************************************************************************)
StatusIn(db, i) == db[i].status

\* the task a took a step of its own (the process did not die under it)
Stepped(a) == a \in running /\ a \notin running' /\ up'

\* C11 (startup recovery): after startup no mapping of the mappings file is
\* left in processing.
C11_StartupRecovery ==
    hist.kind = "startup" =>
        \A i \in 1..Len(db_file) : StatusIn(db_file, i) # "processing"

\* C12 (retry after failure): when the job-queue tick reaches a mapping in
\* the failed-retry state, the mapping is moved back to processing and its
\* job is attempted again.
C12_RetryAfterFailure ==
    [][ \A a \in running :
          ( /\ a.task = "jobs"
            /\ a.i <= Len(daemon_db)
            /\ StatusIn(daemon_db, a.i) = "failed_retry_later"
            /\ Stepped(a) )
          => ( /\ StatusIn(db_file', a.i) = "processing"
               /\ Activity("jobs", a.i, TRUE) \in running' ) ]_vars

\* C13 (active only with its artifacts): whenever a mapping of the mappings
\* file becomes active, its transcript is on disk and its ebook has been
\* primed, whichever status it comes from.
C13_ActiveOnlyPrimed ==
    [][ \A i \in 1..Len(db_file) :
          ( /\ Len(db_file') = Len(db_file)
            /\ StatusIn(db_file, i) # "active"
            /\ StatusIn(db_file', i) = "active" )
          => ( /\ db_file[i].abs_id \in transcripts'
               /\ db_file[i].abs_id \in primed' ) ]_vars

\* the tick reaches a pending_transcript mapping and passes it
WaitStep(a) ==
    /\ a.task = "jobs"
    /\ a.i <= Len(daemon_db)
    /\ StatusIn(daemon_db, a.i) = "pending_transcript"
    /\ Stepped(a)

TranscriptThere(a) ==
    /\ daemon_db[a.i].transcript_file = "set"
    /\ daemon_db[a.i].abs_id \in transcripts

\* C14 as claimed (waiting for the transcript): a tick leaves a
\* pending_transcript mapping as it is when its transcript file does not
\* exist or no path is set, moves it to active when the file exists, and
\* triggers no transcription for it.
C14_WaitsThenActive ==
    [][ \A a \in running : WaitStep(a) =>
          ( /\ StatusIn(daemon_db', a.i) =
                   IF TranscriptThere(a) THEN "active" ELSE "pending_transcript"
            /\ Activity("jobs", a.i, TRUE) \notin running'
            /\ transcripts' = transcripts ) ]_vars

\* C14 as amended: a tick leaves a pending_transcript mapping as it is, in
\* memory and in the file, when its transcript file does not exist or no
\* path is set; when the file exists it moves the mapping to active, or to
\* failed_retry_later if saving the new status raises; it triggers no
\* transcription for it.
C14_WaitsThenActiveOrFailed ==
    [][ \A a \in running : WaitStep(a) =>
          ( /\ IF TranscriptThere(a)
               THEN /\ StatusIn(daemon_db', a.i) \in {"active", "failed_retry_later"}
                    /\ db_file' = daemon_db'
               ELSE /\ daemon_db' = daemon_db
                    /\ db_file' = db_file
            /\ Activity("jobs", a.i, TRUE) \notin running'
            /\ transcripts' = transcripts
            /\ primed' = primed ) ]_vars

\* a pending_transcript mapping was activated, unprimed, by the tick that
\* found its file, while another mapping is still waiting for its own
C14_Witness ==
    /\ hist.kind = "waited"
    /\ \E i \in hist.visited :
        /\ StatusIn(db_file, i) = "active"
        /\ db_file[i].abs_id \in transcripts
        /\ db_file[i].abs_id \notin primed
    /\ \E j \in 1..Len(db_file) : StatusIn(db_file, j) = "pending_transcript"

\* C17 (error locality): when a cycle is over, every mapping that was
\* active in it has been passed over by the loop, whatever was raised on
\* the way.
C17_ErrorLocality ==
    hist.kind = "cycle_end" => hist.active \subseteq hist.visited

\* C18 (missing artifact): when the cycle reaches an active mapping whose
\* transcript file is not on disk, the mapping is downgraded to a pending
\* status and the pass over it is not made.
C18_MissingArtifact ==
    [][ \A a \in running :
          ( /\ a.task = "sync"
            /\ a.i <= Len(daemon_db)
            /\ StatusIn(daemon_db, a.i) = "active"
            /\ daemon_db[a.i].abs_id \notin transcripts
            /\ Stepped(a) )
          => ( /\ StatusIn(db_file', a.i) \in {"pending", "pending_transcript"}
               /\ a.i \notin hist'.visited ) ]_vars

\* C20 (per-mapping exclusion): a pass of sync_cycle over a mapping is
\* never in progress together with another pass or a job-controller step at
\* the same mapping; no two tasks of the daemon are in progress at once.
C20_Exclusion ==
    /\ \A a, b \in running :
        (a # b /\ "sync" \in {a.task, b.task}) => a.i # b.i
    /\ Cardinality(running) <= 1

\* a cycle is in the middle of its loop, at an active mapping, after having
\* passed the first one, while the file holds work for the job controller
C20_Witness ==
    /\ \E a \in running :
        /\ a.task = "sync"
        /\ a.i = 2
        /\ a.i <= Len(daemon_db)
        /\ StatusIn(daemon_db, a.i) = "active"
    /\ \E j \in 1..Len(db_file) : StatusIn(db_file, j) = "pending_transcript"

(***************************************************************************)
(* The two JSON files: mapping_db.json (DB_FILE) and last_state.json       *)
(* (STATE_FILE).  _save_db and _save_state open the file with mode 'w',    *)
(* which truncates it, and json.dump then writes the document piece by     *)
(* piece; the file is complete when the with block closes it.  The daemon  *)
(* and the web process each hold a SyncManager on the same two files, so   *)
(* a load by one can fall in the middle of a save by the other, and the    *)
(* process can die in the middle of a save.                                *)
(***************************************************************************)
MaxVersion == 2

FileNames == {"db", "state"}

\* _save_db / _save_state, the open(..., 'w'): the file is truncated
save_opens ==
    /\ saving.f = "none"
    /\ \E f \in FileNames, v \in 1..MaxVersion :
          /\ saving' = [f |-> f, v |-> v, prev |-> files[f]]
          /\ files' = [files EXCEPT ![f] = Torn(v)]
    /\ UNCHANGED loaded

\* _save_db / _save_state, json.dump returns and the file is closed
save_closes ==
    /\ saving.f # "none"
    /\ files' = [files EXCEPT ![saving.f] = Complete(saving.v)]
    /\ saving' = NotSaving
    /\ UNCHANGED loaded

\* the process dies (or json.dump raises) between the open and the close:
\* what was written so far stays on disk
save_dies ==
    /\ saving.f # "none"
    /\ saving' = NotSaving
    /\ UNCHANGED <<files, loaded>>

\* json.load on a complete document returns it; on anything else it raises
\* json.JSONDecodeError, which neither loader catches
load_result(file) ==
    CASE file.kind = "absent"   -> [kind |-> "empty", v |-> 0]
      [] file.kind = "complete" -> [kind |-> "document", v |-> file.v]
      [] OTHER                  -> [kind |-> "raises", v |-> 0]

\* _load_db / _load_state, called by either process at any time
load ==
    /\ \E f \in FileNames :
          loaded' = [f |-> f, saw |-> files[f].kind,
                     kind |-> load_result(files[f]).kind,
                     v |-> load_result(files[f]).v]
    /\ UNCHANGED <<files, saving>>

InitFiles ==
    /\ InitSyncIdle
    /\ InitStoreIdle
    /\ InitRaIdle
    /\ InitDaemonIdle
    /\ InitFilesIdle
    /\ InitRegIdle
    /\ InitMonIdle

filesRest == <<syncVars, storeVars, raVars, daemonVars, regVars, monVars>>

NextFiles ==
    \/ save_opens /\ UNCHANGED filesRest
    \/ save_closes /\ UNCHANGED filesRest
    \/ save_dies /\ UNCHANGED filesRest
    \/ load /\ UNCHANGED filesRest

SpecFiles == InitFiles /\ [][NextFiles]_vars

(***************************************************************************)
(* Properties of the two files.                                            *)
(***************************************************************************)
\* C15 (atomic persistence): at every point in time each file holds a
\* complete document: during a save of it, the complete previous content or
\* the complete new content, and otherwise (also after the process died in
\* the middle of a save) never a torn one.
C15_AtomicPersistence ==
    \A f \in FileNames :
        /\ files[f].kind # "torn"
        /\ saving.f = f => files[f] \in {saving.prev, Complete(saving.v)}

\* C16 (loading tolerates absent and damaged files): a loader that found its
\* file absent or not a complete document returned the empty value, and did
\* not fail.
C16_LoadTolerant ==
    loaded.saw \in {"absent", "torn"} => loaded.kind = "empty"

(***************************************************************************)
(* The character-delta escalation on books of several lengths: the reader  *)
(* moves the KoSync position by three thousandths, forwards or backwards,  *)
(* a move below the 1% threshold whose character delta depends on the      *)
(* length of the book.                                                     *)
(***************************************************************************)
\* Ebook lengths in thousands of characters: 400 000, 1 000 000, 10 000 000.
EscLens == {400, 1000, 10000}

\* a move of 0.003, in thousandths
EsMove == 3

\* the KoSync positions of the reader: 0 and 0.003
EscPcts == {0, EsMove}

user_moves_kosync_slightly ==
    /\ \E v \in {src.es + EsMove, src.es - EsMove} \cap EscPcts :
          src' = [src EXCEPT !.es = v]
    /\ cyc' = NoCycle
    /\ UNCHANGED <<status, book_len, state>>

InitEsc ==
    /\ status \in {"active", "pending"}
    /\ book_len \in EscLens
    /\ src = [ab |-> 2000, es |-> 0, ra |-> 0]
    /\ state = defaults
    /\ cyc = NoCycle
    /\ InitStoreIdle
    /\ InitRaIdle
    /\ InitDaemonIdle
    /\ InitFilesIdle
    /\ InitRegIdle
    /\ InitMonIdle

escRest == <<storeVars, raVars, daemonVars, fileVars, regVars, monVars>>

NextEsc ==
    \/ sync_not_active /\ UNCHANGED escRest
    \/ sync_fetch_failed /\ UNCHANGED escRest
    \/ sync_no_change /\ UNCHANGED escRest
    \/ sync_regression /\ UNCHANGED escRest
    \/ sync_abs /\ UNCHANGED escRest
    \/ sync_kosync /\ UNCHANGED escRest
    \/ sync_storyteller /\ UNCHANGED escRest
    \/ user_moves_kosync_slightly /\ UNCHANGED escRest

SpecEsc == InitEsc /\ [][NextEsc]_vars

(***************************************************************************)
(* Properties of the escalation.                                           *)
(***************************************************************************)
\* a pass over the active mapping that read all three services, when the
\* only difference to the persisted state is a KoSync move of 0.003
SlightMovePass ==
    /\ is_active(status)
    /\ state.present
    /\ src.ab = state.abs_ts
    /\ src.ra = state.storyteller_pct
    /\ Abs(src.es - state.kosync_pct) = EsMove
    /\ cyc'.kind \notin {"none", "inactive", "skip"}
    /\ cyc'.readok

Propagated == "KOSYNC" \in cyc'.changed

Absorbed ==
    /\ cyc'.changed = {}
    /\ cyc'.writes = {}
    /\ state'.kosync_pct = src.es

\* C19 as stated (sub-threshold word escalation example): a KoSync move of
\* 0.003 does not propagate on a book of 1 000 000 characters (no write is
\* made), and does propagate on a book of 10 000 000 characters.
C19_EscalationExample ==
    [][SlightMovePass =>
          /\ book_len = 1000 => Absorbed
          /\ book_len = 10000 => Propagated]_vars

\* C19 as the code has it: a KoSync move of 0.003 propagates when its
\* character delta, 0.003 of the length of the book, is above 2000
\* characters, so on the books of 1 000 000 (3000) and of 10 000 000
\* (30 000) characters; on a book of 400 000 characters (1200) it does not:
\* the persisted KoSync position is matched to the observation and no write
\* is made.
C19_EscalationByLength ==
    [][SlightMovePass =>
          /\ book_len \in {1000, 10000} => Propagated
          /\ book_len = 400 => Absorbed]_vars

\* a pass has just taken the reader's move to 0.003 on the book of
\* 1 000 000 characters as a change of KoSync alone, and written it on
C19_Witness ==
    /\ book_len = 1000
    /\ cyc.readok
    /\ cyc.changed = {"KOSYNC"}
    /\ cyc.source = "KOSYNC"
    /\ cyc.writes # {}
    /\ src.es = EsMove
    /\ state.kosync_pct = EsMove

(***************************************************************************)
(* Properties of the propagation step of the reconciliation.               *)
(***************************************************************************)
\* the values the pass recorded in c handed to update_progress for service t
WrittenTo(c, t) == {w.val : w \in {x \in c.writes : x.tgt = t}}

\* C21 (stored triple after a write): after a pass in which at least one
\* update_progress call took effect, each field of the stored triple is the
\* value the pass read from that service or a value the pass wrote to it.
C21_StoredIsReadOrWritten ==
    [][ ( /\ cyc'.kind \in Completed
          /\ \E w \in cyc'.writes : w.ok )
        => LET o == ObservedBy(cyc', src)
           IN  /\ state'.abs_ts \in {o.ab} \cup WrittenTo(cyc', "ABS")
               /\ state'.kosync_pct \in {o.es} \cup WrittenTo(cyc', "KOSYNC")
               /\ state'.storyteller_pct
                      \in {o.ra} \cup WrittenTo(cyc', "STORYTELLER") ]_vars

(***************************************************************************)
(* The registry with its states table.  The web process holds manager.db   *)
(* and manager.state as index last loaded them; the daemon, in the         *)
(* meantime, saves states in sync_cycle and statuses in check_pending_jobs.*)
(* A state entry is kept here as a stamp that tells its versions apart.    *)
(***************************************************************************)
MaxStamp == 2

RegMappings == {Mapping(id, st) : id \in Ids, st \in {"pending_transcript", "active"}}

RegFiles ==
    {<<>>} \cup {<<m>> : m \in RegMappings}
           \cup {<<m, n>> : m \in RegMappings, n \in RegMappings}

\* sync_cycle in the daemon: self.state[abs_id] = prev_state, _save_state()
sync_cycle_saves_state ==
    /\ \E id \in Ids, v \in 1..MaxStamp :
        /\ \E i \in 1..Len(db_file) :
              db_file[i].abs_id = id /\ db_file[i].status = "active"
        /\ state_file' = [i \in DOMAIN state_file \cup {id} |->
                             IF i = id THEN v ELSE state_file[i]]
        /\ state_file' # state_file
    /\ ret' = NoReturn
    /\ UNCHANGED <<storeVars, self_state>>

\* the daemon's job tick beside the registry
check_pending_jobs_ticks ==
    /\ check_pending_jobs
    /\ ret' = NoReturn
    /\ UNCHANGED <<self_state, state_file>>

InitReg ==
    /\ InitSyncIdle
    /\ InitRaIdle
    /\ InitDaemonIdle
    /\ InitFilesIdle
    /\ db_file \in RegFiles
    /\ web_db = db_file
    /\ queue = <<>>
    /\ state_file = NoStates
    /\ self_state = NoStates
    /\ ret = NoReturn
    /\ InitMonIdle

regRest == <<syncVars, raVars, daemonVars, fileVars, monVars>>

NextReg ==
    \/ remove_mapping /\ UNCHANGED regRest
    \/ index /\ UNCHANGED regRest
    \/ sync_cycle_saves_state /\ UNCHANGED regRest
    \/ check_pending_jobs_ticks /\ UNCHANGED regRest

SpecReg == InitReg /\ [][NextReg]_vars

(***************************************************************************)
(* Properties of the registry with its states table.                       *)
(***************************************************************************)
HasMapping(db, id) == \E i \in 1..Len(db) : db[i].abs_id = id

\* the entries of st other than that of id are those of st2
OthersKept(st, st2, id) ==
    /\ DOMAIN st2 \subseteq DOMAIN st
    /\ \A j \in DOMAIN st \ {id} : j \in DOMAIN st2 /\ st2[j] = st[j]

FieldOf(st, x) ==
    IF x = "ABS" THEN st.abs_ts
    ELSE IF x = "KOSYNC" THEN st.kosync_pct ELSE st.storyteller_pct

ValueOf(o, x) == IF x = "ABS" THEN o.ab ELSE IF x = "KOSYNC" THEN o.es ELSE o.ra

\* C23 (sub-threshold absorption): in a pass that does not end in a saved
\* propagation, the stored field of every source that moved by a positive
\* amount without being treated as changed is the value read from it, the
\* stored field of every source that did not move is what it was before;
\* and a pass in which no source is treated as changed makes no
\* update_progress call.
C23_Absorption ==
    [][ cyc'.kind \in Completed =>
          LET o == ObservedBy(cyc', src)
              prev == prev_state_of(state)
          IN  /\ cyc'.kind # "synced" =>
                    \A x \in Sources :
                       /\ x \in cyc'.absorbed => FieldOf(state', x) = ValueOf(o, x)
                       /\ FieldOf(prev, x) = ValueOf(o, x)
                             => FieldOf(state', x) = FieldOf(prev, x)
              /\ cyc'.changed = {} => (cyc'.writes = {} /\ src' = src) ]_vars

\* a pass has taken a small move of one source into the stored state, with
\* the other two fields stored before and left as they were, and has made
\* no update_progress call
C23_Witness ==
    /\ cyc.kind = "nochange"
    /\ Cardinality(cyc.absorbed) = 1
    /\ cyc.writes = {}
    /\ state.present
    /\ Triple(state) = ObservedBy(cyc, src)
    /\ \A x \in Sources \ cyc.absorbed : FieldOf(state, x) # 0

(***************************************************************************)
(* The trickle: a reader who moves the KoSync position on by a little      *)
(* between one pass and the next, each move (0.007, on the book of 100 000 *)
(* characters 700 characters) below the fraction threshold and below the   *)
(* character threshold.  The record of the last pass is kept across these  *)
(* moves.                                                                  *)
(***************************************************************************)
MaxCreep == 2

\* a move of 0.007, in thousandths
PctCreep == 7

user_creeps_kosync ==
    /\ src.es + PctCreep <= MaxCreep * PctCreep
    /\ src' = [src EXCEPT !.es = src.es + PctCreep]
    /\ UNCHANGED <<status, book_len, state, cyc>>

InitTrickle ==
    /\ status \in {"active", "pending"}
    /\ book_len = 100
    /\ src = [ab |-> 2000, es |-> 0, ra |-> 0]
    /\ state = defaults
    /\ cyc = NoCycle
    /\ InitStoreIdle
    /\ InitRaIdle
    /\ InitDaemonIdle
    /\ InitFilesIdle
    /\ InitRegIdle
    /\ InitMonIdle

trickleRest == <<storeVars, raVars, daemonVars, fileVars, regVars, monVars>>

NextTrickle ==
    \/ sync_not_active /\ UNCHANGED trickleRest
    \/ sync_fetch_failed /\ UNCHANGED trickleRest
    \/ sync_no_change /\ UNCHANGED trickleRest
    \/ sync_regression /\ UNCHANGED trickleRest
    \/ sync_abs /\ UNCHANGED trickleRest
    \/ sync_kosync /\ UNCHANGED trickleRest
    \/ sync_storyteller /\ UNCHANGED trickleRest
    \/ user_creeps_kosync /\ UNCHANGED trickleRest

SpecTrickle == InitTrickle /\ [][NextTrickle]_vars

(***************************************************************************)
(* Properties of the trickle.                                              *)
(***************************************************************************)
\* since the triple l was read, KoSync alone has moved, by a positive amount
\* not above the fraction threshold nor, in characters, above the character
\* threshold
CreptSince(len, l, o) ==
    /\ o.ab = l.ab
    /\ o.ra = l.ra
    /\ Abs(o.es - l.es) > 0
    /\ Abs(o.es - l.es) <= delta_kosync_thresh
    /\ Abs(o.es - l.es) * len <= delta_kosync_char_thresh

SmallEsMove(prev, o) ==
    /\ Abs(o.es - prev.kosync_pct) > 0
    /\ Abs(o.es - prev.kosync_pct) <= delta_kosync_thresh

\* ... and by more characters than the character threshold
ManyChars(len, prev, o) ==
    Abs(o.es * len - prev.kosync_pct * len) > delta_kosync_char_thresh

\* C25 (ES escalation): in a pass where the KoSync fraction moved by a
\* positive amount not above its threshold, KoSync is flagged as changed if
\* and only if the move is of more characters than the character threshold;
\* and then the move is not taken into the stored state (an exception in the
\* propagation leaves the stored KoSync position as it was), the pass goes
\* on to the regression guard and the choice of source, and the source is
\* chosen with KoSync in its place between ABS and Storyteller.
C25_Escalation ==
    [][ ( /\ cyc'.kind \in Completed
          /\ SmallEsMove(prev_state_of(state), ObservedBy(cyc', src)) )
        => LET o == ObservedBy(cyc', src)
               prev == prev_state_of(state)
           IN  /\ "KOSYNC" \in cyc'.changed <=> ManyChars(book_len, prev, o)
               /\ ManyChars(book_len, prev, o) =>
                     /\ "KOSYNC" \notin cyc'.absorbed
                     /\ cyc'.kind \in Propagating \cup {"regress"}
                     /\ cyc'.kind \in Propagating
                           => cyc'.source = Priority(cyc'.changed)
                     /\ cyc'.kind = "error"
                           => state'.kosync_pct = prev.kosync_pct ]_vars

\* an escalated move of 0.003 was the source of a propagation that ended in
\* an exception, and the stored KoSync position is still the one from before
C25_Witness ==
    /\ cyc.kind = "error"
    /\ cyc.source = "KOSYNC"
    /\ cyc.changed = {"KOSYNC"}
    /\ cyc.last.es = EsMove
    /\ state.present
    /\ state.kosync_pct = 0

(***************************************************************************)
(* Properties of the translation step of lines 437-554.                    *)
(***************************************************************************)
\* the steps that turn the position of the chosen source into a position of
\* the other medium: the text lookup and the match of that text
Translating == {"text", "match"}

\* with the step of the Storyteller branch that supplies the KoSync xpath
Steps == Translating \cup {"xpath"}

\* C26 (snap to present on untranslatable): when the text lookup or the
\* text match of the chosen source returns no result, the pass leaves the
\* stored triple equal to the triple it read, persisted; and when the next
\* pass reads the same triple, it sets no change flag, chooses no source
\* and makes no update_progress call.
C26_SnapToPresent ==
    [][/\ (cyc'.kind \in Propagating /\ cyc'.nothing \in Translating)
            => state'.present /\ Triple(state') = cyc'.last
       /\ (/\ cyc.kind \in Propagating /\ cyc.nothing \in Translating
           /\ cyc'.kind \in Completed /\ cyc'.last = cyc.last)
            => /\ cyc'.kind = "nochange"
               /\ cyc'.changed = {} /\ cyc'.source = "-" /\ cyc'.writes = {}]_vars

\* C26 witness: a pass whose text lookup or text match returned no result
\* has been followed by a pass that read the same triple.
C26_Witness ==
    /\ cyc.kind = "nochange" /\ cyc.after \in Translating
    /\ state.present /\ Triple(state) = cyc.last

\* C27 (persist on write failure): a pass that reached the propagation step
\* and in which an update_progress call failed (raised, or returned False)
\* leaves the stored triple equal to the triple it read, persisted.
C27_PersistOnWriteFailure ==
    [][(cyc'.kind \in Propagating /\ \E w \in cyc'.writes : ~w.ok)
            => state'.present /\ Triple(state') = cyc'.last]_vars

\* C28 (fail-closed translation): a pass in which a step of the chosen
\* branch returned no result (the text lookup, the text match, or the
\* find_text_location of the Storyteller branch that supplies the KoSync
\* xpath) makes no update_progress call.
C28_FailClosed ==
    [][(cyc'.kind \in Propagating /\ cyc'.nothing \in Steps)
            => cyc'.writes = {}]_vars

\* the update_progress calls of a pass, as (target, value)
Calls_of(c) == {[tgt |-> w.tgt, val |-> w.val] : w \in c.writes}

\* prev_state['storyteller_pct'] when the branch is entered: the stored
\* value, or the value just read if the small-change block took it in
PriorRa(c, st) ==
    IF "STORYTELLER" \in c.absorbed THEN c.last.ra
    ELSE prev_state_of(st).storyteller_pct

RaWriteOk(c) == \E w \in c.writes : w.tgt = "STORYTELLER" /\ w.ok

\* C29 (AB wins): a pass whose source is ABS and whose text lookup and text
\* match succeeded with a match at p calls update_progress on KoSync and on
\* Storyteller with p and on nothing else, and persists abs_ts = the time
\* read, kosync_pct = p, storyteller_pct = p if the Storyteller write
\* returned True and the prior value otherwise, kosync_index = the offset of
\* the match.
C29_AbWins ==
    [][(cyc'.kind \in Propagating /\ cyc'.source = "ABS" /\ cyc'.nothing = "-")
        => \E p \in PctVals :
            /\ Calls_of(cyc') = {[tgt |-> "KOSYNC", val |-> p],
                                 [tgt |-> "STORYTELLER", val |-> p]}
            /\ state'.present
            /\ state'.abs_ts = cyc'.last.ab
            /\ state'.kosync_pct = p
            /\ state'.storyteller_pct = IF RaWriteOk(cyc') THEN p
                                        ELSE PriorRa(cyc', state)
            /\ state'.kosync_index = matched_index_of(book_len, p)]_vars

\* C30 (ES wins): a pass whose source is KoSync and whose text lookup and
\* text match succeeded with a match at time t calls update_progress on
\* Audiobookshelf with t and on Storyteller with the KoSync position read,
\* and on nothing else, and persists abs_ts = t, kosync_pct = the position
\* read, storyteller_pct = that position if the Storyteller write returned
\* True and the prior value otherwise.
C30_EsWins ==
    [][(cyc'.kind \in Propagating /\ cyc'.source = "KOSYNC" /\ cyc'.nothing = "-")
        => \E t \in ABVals :
            /\ Calls_of(cyc') = {[tgt |-> "ABS", val |-> t],
                                 [tgt |-> "STORYTELLER", val |-> cyc'.last.es]}
            /\ state'.present
            /\ state'.abs_ts = t
            /\ state'.kosync_pct = cyc'.last.es
            /\ state'.storyteller_pct = IF RaWriteOk(cyc') THEN cyc'.last.es
                                        ELSE PriorRa(cyc', state)]_vars

(***************************************************************************)
(* Which mappings sync_cycle takes up: one mapping with any status a       *)
(* record of mapping_db.json can hold, the services and the stored state   *)
(* as they may stand when the pass begins.                                 *)
(***************************************************************************)
\* the statuses written by web_server.py (820, 925) and main.py (118, 191,
\* 220-264), 'failed_retry' as another string a file can hold, and "absent"
\* for a record with no status key
MappingStatuses ==
    {"pending", "pending_transcript", "processing", "active", "failed",
     "failed_retry_later", "failed_retry", "crashed", "absent"}

InitGate ==
    /\ status \in MappingStatuses
    /\ book_len = 100
    /\ src \in [ab : {2000, 2140}, es : PctVals, ra : PctVals]
    /\ state \in {defaults,
                  [defaults EXCEPT !.present = TRUE, !.abs_ts = 2000,
                                   !.storyteller_pct = 55]}
    /\ cyc = NoCycle
    /\ InitStoreIdle
    /\ InitRaIdle
    /\ InitDaemonIdle
    /\ InitFilesIdle
    /\ InitRegIdle
    /\ InitMonIdle

gateRest == <<storeVars, raVars, daemonVars, fileVars, regVars, monVars>>

NextGate ==
    \/ sync_not_active /\ UNCHANGED gateRest
    \/ sync_fetch_failed /\ UNCHANGED gateRest
    \/ sync_no_change /\ UNCHANGED gateRest
    \/ sync_regression /\ UNCHANGED gateRest
    \/ sync_abs /\ UNCHANGED gateRest
    \/ sync_kosync /\ UNCHANGED gateRest
    \/ sync_storyteller /\ UNCHANGED gateRest

SpecGate == InitGate /\ [][NextGate]_vars

\* the pass left the mapping alone: no service read, no update_progress
\* call, the stored state as it was
PassedOver ==
    /\ cyc'.kind = "inactive"
    /\ cyc'.last = NoTriple /\ cyc'.writes = {}
    /\ state' = state /\ src' = src

InitFrag ==
    /\ status \in {"active", "pending"}
    /\ book_len = 100
    /\ src \in [ab : {2000}, es : {0}, ra : PctVals]
    /\ state \in {defaults, [defaults EXCEPT !.present = TRUE, !.abs_ts = 2000]}
    /\ cyc = NoCycle
    /\ InitStoreIdle
    /\ InitRaIdle
    /\ InitDaemonIdle
    /\ InitFilesIdle
    /\ InitRegIdle
    /\ InitMonIdle

fragRest == <<storeVars, raVars, daemonVars, fileVars, regVars, monVars>>

NextFrag ==
    \/ sync_not_active /\ UNCHANGED fragRest
    \/ sync_fetch_failed /\ UNCHANGED fragRest
    \/ sync_no_change /\ UNCHANGED fragRest
    \/ sync_regression /\ UNCHANGED fragRest
    \/ sync_abs /\ UNCHANGED fragRest
    \/ sync_storyteller_fragment /\ UNCHANGED fragRest
    \/ user_moves_storyteller /\ UNCHANGED fragRest

SpecFrag == InitFrag /\ [][NextFrag]_vars

\* C31 (RA wins): in a pass whose source is Storyteller, the query text is
\* the fragment text when the fragment attempt gave non-empty text and else
\* the text at the Storyteller fraction; and when the text match gave a time
\* t, the pass calls update_progress on Audiobookshelf with t and on KoSync
\* with the Storyteller fraction read at the start of the pass, on nothing
\* else, and persists the triple (t, that fraction, that fraction).
C31_RaWins ==
    [][(cyc'.kind \in Propagating /\ cyc'.source = "STORYTELLER")
        => /\ cyc'.query.frag = "text" => cyc'.query.from = "fragment"
           /\ cyc'.query.frag = "none" => cyc'.query.from \in {"fraction", "-"}
           /\ (cyc'.query.from # "-" /\ cyc'.nothing \in {"-", "xpath"})
                => \E t \in ABVals :
                    /\ Calls_of(cyc') = {[tgt |-> "ABS", val |-> t],
                                         [tgt |-> "KOSYNC", val |-> cyc'.last.ra]}
                    /\ state'.present
                    /\ Triple(state') = [ab |-> t, es |-> cyc'.last.ra,
                                         ra |-> cyc'.last.ra]]_vars

(***************************************************************************)
(* Properties of the stored state as a whole.                              *)
(***************************************************************************)
\* C33 (cursor consistency): in every persisted state, kosync_index is the
\* character offset of the stored kosync_pct in the ebook.
C33_CursorConsistency ==
    state.present => state.kosync_index = matched_index_of(book_len, state.kosync_pct)

(***************************************************************************)
(* The readaloud monitor (web_server.py): monitor_readaloud_files, run     *)
(* every MONITOR_INTERVAL by a thread, and the trigger_monitor route.  One *)
(* folder under DEST_BASE with one readaloud file; ages in minutes.        *)
(*   ra     - age of the readaloud file                                    *)
(*   others - there are other files in the folder                          *)
(*   other  - age of the newest of them                                    *)
(*   open   - a process has a file of the folder open                      *)
(*   node   - a node or storyteller process names the folder               *)
(*   dest   - a file of the readaloud file's name is in the books dir      *)
(***************************************************************************)
MIN_AGE_MINUTES == 10
MaxAge == 11

Tools == {"ok", "raise"}

\* lines 254-294 (monitor) : lsof +D decides when it runs; ps aux is asked
\* only when lsof raised; when both raise nothing is found
monitor_active(f, lsof, ps) ==
    IF lsof = "ok" THEN f.open
    ELSE IF ps = "ok" THEN f.node
    ELSE FALSE

\* lines 301-313: the newest file of the folder, the readaloud file among them
newest(f) == IF f.others /\ f.other < f.ra THEN f.other ELSE f.ra

\* monitor_readaloud_files, lines 232-358, for the readaloud file
monitor_decision(f, lsof, ps) ==
    IF f.ra < MIN_AGE_MINUTES THEN "young"
    ELSE IF monitor_active(f, lsof, ps) THEN "active"
    ELSE IF newest(f) < MIN_AGE_MINUTES THEN "modified"
    ELSE IF f.dest THEN "duplicate"
    ELSE "copied"

\* lines 701-726 (trigger_monitor)
trigger_active(f, lsof, ps) ==
    IF lsof = "ok" THEN f.open
    ELSE IF ps = "ok" THEN f.node
    ELSE FALSE

\* trigger_monitor, lines 686-780, for the readaloud file
trigger_decision(f, lsof, ps) ==
    IF f.ra < MIN_AGE_MINUTES THEN "young"
    ELSE IF trigger_active(f, lsof, ps) THEN "active"
    ELSE IF newest(f) < MIN_AGE_MINUTES THEN "modified"
    ELSE IF f.dest THEN "duplicate"
    ELSE "copied"

\* lines 330-356 and 757-778: copy2 to the books directory, then unlink of
\* every other file of the folder.  On "duplicate" the monitor deletes the
\* folder only if it holds no file (lines 319-328), and it holds the
\* readaloud file.
after_pass(f, did) ==
    IF did = "copied" THEN [f EXCEPT !.dest = TRUE, !.others = FALSE, !.other = 0]
    ELSE f

MonitorPass(by, did, lsof, ps) ==
    /\ folder' = after_pass(folder, did)
    /\ mon' = [by |-> by, did |-> did, lsof |-> lsof, ps |-> ps, before |-> folder]

monitor_readaloud_files ==
    \E lsof \in Tools, ps \in Tools :
        MonitorPass("monitor", monitor_decision(folder, lsof, ps), lsof, ps)

trigger_monitor ==
    \E lsof \in Tools, ps \in Tools :
        MonitorPass("trigger", trigger_decision(folder, lsof, ps), lsof, ps)

\* a minute goes by
minute_passes ==
    /\ folder.ra < MaxAge \/ (folder.others /\ folder.other < MaxAge)
    /\ folder' = [folder EXCEPT
                    !.ra = IF @ < MaxAge THEN @ + 1 ELSE @,
                    !.other = IF folder.others /\ @ < MaxAge THEN @ + 1 ELSE @]
    /\ mon' = NoMonitor

\* Storyteller, outside this program: it takes up or leaves the folder,
\* writes a file into it, writes the readaloud file again
storyteller_works ==
    /\ \/ \E b \in BOOLEAN : b # folder.open /\ folder' = [folder EXCEPT !.open = b]
       \/ \E b \in BOOLEAN : b # folder.node /\ folder' = [folder EXCEPT !.node = b]
       \/ folder' = [folder EXCEPT !.others = TRUE, !.other = 0]
       \/ folder' = [folder EXCEPT !.ra = 0]
    /\ folder' # folder
    /\ mon' = NoMonitor

InitMonitor ==
    /\ InitSyncIdle
    /\ InitStoreIdle
    /\ InitRaIdle
    /\ InitDaemonIdle
    /\ InitFilesIdle
    /\ InitRegIdle
    /\ folder \in [ra : {MIN_AGE_MINUTES - 1, MIN_AGE_MINUTES}, others : {TRUE},
                   other : {MIN_AGE_MINUTES - 1, MIN_AGE_MINUTES},
                   open : BOOLEAN, node : BOOLEAN, dest : BOOLEAN]
    /\ mon = NoMonitor

monitorRest == <<syncVars, storeVars, raVars, daemonVars, fileVars, regVars>>

NextMonitor ==
    \/ monitor_readaloud_files /\ UNCHANGED monitorRest
    \/ trigger_monitor /\ UNCHANGED monitorRest
    \/ minute_passes /\ UNCHANGED monitorRest
    \/ storyteller_works /\ UNCHANGED monitorRest

SpecMonitor == InitMonitor /\ [][NextMonitor]_vars

\* the checks the function's documentation lists, on the folder f
ChecksPass(f) ==
    /\ f.ra >= MIN_AGE_MINUTES
    /\ ~f.open
    /\ ~f.node
    /\ (f.others => f.other >= MIN_AGE_MINUTES)

\* the pass copied the readaloud file or deleted a file
Touched == folder'.dest # folder.dest \/ folder'.others # folder.others

\* C34 (readaloud monitor safety): a pass of the monitor or of the manual
\* trigger copies the readaloud file or deletes a file only if the file is
\* at least 10 minutes old, no process has the folder open, no node or
\* storyteller process names the folder and every file is at least 10
\* minutes old; it deletes only when it has copied; and both take the same
\* decision on the same folder.
C34_MonitorSafety ==
    [][(mon'.by # "none")
        => /\ Touched => ChecksPass(folder)
           /\ folder'.others # folder.others => (~folder.dest /\ folder'.dest)
           /\ \A lsof \in Tools, ps \in Tools :
                monitor_decision(folder, lsof, ps) = trigger_decision(folder, lsof, ps)]_vars

(***************************************************************************)
(* The web process and the daemon on the one mapping_db.json: each keeps   *)
(* its own copy of the table (manager.db in either process) and _save_db   *)
(* writes the whole copy.  The web process loads the file when it starts,  *)
(* on the dashboard and in process_queue; the daemon at the start of       *)
(* check_pending_jobs and of sync_cycle.                                   *)
(***************************************************************************)
InitShared ==
    /\ InitSyncIdle
    /\ InitRaIdle
    /\ InitFilesIdle
    /\ InitRegIdle
    /\ InitMonIdle
    /\ db_file \in InitialFiles
    /\ web_db = db_file
    /\ queue = <<>>
    /\ up = FALSE
    /\ running = {}
    /\ daemon_db = <<>>
    /\ transcripts = {}
    /\ primed = {}
    /\ hist = NoHist

sharedDaemonRest == <<syncVars, raVars, fileVars, regVars, monVars, web_db, queue>>
sharedWebRest == <<syncVars, raVars, fileVars, monVars, daemonVars>>

NextShared ==
    \/ startup /\ UNCHANGED sharedDaemonRest
    \/ check_pending_jobs_begins /\ UNCHANGED sharedDaemonRest
    \/ check_pending_jobs_step /\ UNCHANGED sharedDaemonRest
    \/ check_pending_jobs_job /\ UNCHANGED sharedDaemonRest
    \/ match /\ UNCHANGED <<sharedWebRest, regVars>>
    \/ delete_mapping /\ UNCHANGED <<sharedWebRest, regVars>>
    \/ index /\ UNCHANGED sharedWebRest

SpecShared == InitShared /\ [][NextShared]_vars

\* the records of mapping id in a table
Recs(db, id) == {db[i] : i \in {k \in 1..Len(db) : db[k].abs_id = id}}

\* a step of check_pending_jobs that saved; a save of the web process
DaemonSaved == running' # running /\ db_file' # db_file
WebSaved == running' = running /\ up' = up /\ db_file' # db_file

\* C35 (no lost update between the UI process and the daemon): a save of
\* check_pending_jobs changes the record of one mapping of the file and
\* neither adds nor removes a mapping, so that what the web process saved
\* for the others stays; and a save of the web process changes the records
\* of one mapping only, so that the statuses the daemon saved for the
\* others stay.
C35_NoLostUpdate ==
    [][/\ DaemonSaved
            => \E j \in Ids :
                /\ \A id \in Ids \ {j} : Recs(db_file', id) = Recs(db_file, id)
                /\ HasMapping(db_file', j) <=> HasMapping(db_file, j)
       /\ WebSaved
            => \E j \in Ids :
                \A id \in Ids \ {j} : Recs(db_file', id) = Recs(db_file, id)]_vars

(***************************************************************************)
(* The mappings table and the States table under every way a mapping is    *)
(* added or removed: remove_mapping, the routes match and delete_mapping,  *)
(* the job queue, and the cycles that save a ReconState.                   *)
(***************************************************************************)
NextOrphan ==
    \/ remove_mapping /\ UNCHANGED regRest
    \/ index /\ UNCHANGED regRest
    \/ sync_cycle_saves_state /\ UNCHANGED regRest
    \/ check_pending_jobs_ticks /\ UNCHANGED regRest
    \/ match /\ UNCHANGED <<regRest, regVars>>
    \/ delete_mapping /\ UNCHANGED <<regRest, regVars>>

SpecOrphan == InitReg /\ [][NextOrphan]_vars

\* C36 (no orphan state): every key of the persisted States table is the
\* ab_id of a mapping of the persisted Mappings table.
C36_NoOrphanState == \A id \in DOMAIN state_file : HasMapping(db_file, id)

\* C37 (RA timestamp monotonicity): a successful update_progress leaves every
\* position row with a timestamp strictly greater than the one the row held
\* before the write, also when that one was ahead of the local clock.
C37_TimestampMonotone ==
    (call.kind = "update" /\ call.ret) =>
        /\ Len(rows) = Len(call.before)
        /\ \A i \in 1..Len(rows) : rows[i].ts > call.before[i].ts

\* the positions whose mapping goes, in this step, from status s to status t
Goes(s, t) ==
    {i \in 1..Len(db_file) :
        /\ i <= Len(db_file')
        /\ db_file[i].status = s
        /\ db_file'[i].status = t}

CallsTo(c, t) == {w \in c.writes : w.tgt = t}

\* C39 (single winning source): the pass over one mapping never calls
\* update_progress on the source it selected, calls it at most once on each
\* of the other two, and makes no call when no source crossed its threshold.
C39_SingleWinner ==
    /\ CallsTo(cyc, cyc.source) = {}
    /\ \A t \in {"ABS", "KOSYNC", "STORYTELLER"} : Cardinality(CallsTo(cyc, t)) <= 1
    /\ cyc.changed = {} => cyc.writes = {}
    /\ cyc.writes # {} => cyc.source \in cyc.changed

\* a pass in which more than one source crossed its threshold and the
\* winner's position was written to both of the others
C39_Witness ==
    /\ cyc.kind = "synced"
    /\ Cardinality(cyc.changed) >= 2
    /\ Cardinality(cyc.writes) = 2
    /\ \A w \in cyc.writes : w.ok

\* a step of sync_cycle: its loop begins, moves on or ends
SyncStep ==
    \/ \E a \in running : a.task = "sync" /\ a \notin running'
    \/ \E a \in running' : a.task = "sync" /\ a \notin running

\* the mappings of table db that are active keep their place and every
\* field in table db2
ActiveKept(db, db2) ==
    \A i \in 1..Len(db) :
        db[i].status = "active" => (i <= Len(db2) /\ db2[i] = db[i])

\* C40 (daemon frame on mappings): a step of sync_cycle leaves the mappings
\* file as it is and the table in memory as it is or as loaded from the
\* file; no step of the daemon (startup with cleanup_stale_jobs, the steps
\* of check_pending_jobs, the cycle) changes a field of a mapping that is
\* active, in the file or in the table in memory, so an active mapping
\* stays active.
C40_DaemonFrame ==
    [][/\ SyncStep
            => /\ db_file' = db_file
               /\ up' => daemon_db' \in {daemon_db, db_file}
       /\ ActiveKept(db_file, db_file')
       /\ (up /\ up') => ActiveKept(daemon_db, daemon_db')]_vars

\* two active mappings, one at least made active by a job that primed its
\* ebook, with the daemon up and a cycle that visited active mappings ended
C40_Witness ==
    /\ up
    /\ hist.kind = "cycle_end"
    /\ hist.visited # {}
    /\ Len(db_file) = 2
    /\ \A i \in 1..Len(db_file) : db_file[i].status = "active"
    /\ primed # {}
    /\ daemon_db = db_file

====
